---- MODULE Spec2Model ----
(***************************************************************************)
(* Conversation routing and retrieval-augmented response pipeline of the   *)
(* Calo meal assistant: agent_service.process_message with its router and  *)
(* four handlers, the completion client of llm_service and the retrieval   *)
(* index of rag_service.                                                    *)
(*                                                                         *)
(* Texts the code inspects character by character (the router's reply, the *)
(* user message) are sequences of one-character strings.  Texts the code   *)
(* only stores or compares are TLA+ strings.                               *)
(***************************************************************************)
EXTENDS Integers, Sequences, FiniteSets, Bags, TLC

VARIABLES
    conversations,    \* agent_service.conversations: dict id -> list of ChatMessage
    user_contexts,    \* agent_service.user_contexts: dict user id -> dict
    meal_collection,  \* rag_service.meal_collection: None or a collection handle
    chroma_store,     \* the persisted collection of the chroma client
    clock,            \* wall clock in seconds (datetime.now())
    calls,            \* one frame per process_message invocation
    turn_log,         \* history: per conversation id, the turns that returned
    disturbed,        \* history: ids with a failed, overlapped or deleted turn
    raw_reply,        \* router unit: the text the model answered
    llm_outcome,      \* router unit: how the completion call ended
    decision,         \* router unit: what route_conversation returned
    init_log,         \* history: the calls of initialize_rag_engine so far
    rag_call,         \* retrieval unit: the last call of rag_service and what it gave
    llm_call,         \* client unit: the calls of llm_service so far, the last one running
    routing_prompt,   \* prompt unit: the last call of route_conversation's prompt building
    extraction        \* extraction unit: one user's Preference Learner turns on any message

mainVars == <<conversations, user_contexts, meal_collection, chroma_store,
              clock, calls, turn_log, disturbed>>
routerVars == <<raw_reply, llm_outcome, decision>>
unitVars == <<raw_reply, llm_outcome, decision, init_log, rag_call, llm_call,
              routing_prompt, extraction>>
vars == <<conversations, user_contexts, meal_collection, chroma_store,
          clock, calls, turn_log, disturbed, raw_reply, llm_outcome, decision,
          init_log, rag_call, llm_call, routing_prompt, extraction>>

-----------------------------------------------------------------------------
(* Bounds of the model *)

MaxCalls == 2        \* process_message invocations in one behaviour
MaxClock == 1        \* seconds the wall clock may advance
MaxReplyLen == 3     \* fragments in a router reply of the router unit
MaxClientCalls == 2  \* calls of the completion client in one behaviour
MaxHistory == 7      \* messages in a history handed to route_conversation
LongContent == 101   \* characters of the long message of the prompt unit
MaxWords == 3        \* words of a message of the extraction unit
MaxExtractTurns == 2  \* Preference Learner turns of the extraction unit
MaxInitCalls == 2    \* calls of initialize_rag_engine in one behaviour

-----------------------------------------------------------------------------
(* Python string operations on sequences of characters *)

LowerLetters ==
    <<"a","b","c","d","e","f","g","h","i","j","k","l","m",
      "n","o","p","q","r","s","t","u","v","w","x","y","z">>

UpperLetters ==
    <<"A","B","C","D","E","F","G","H","I","J","K","L","M",
      "N","O","P","Q","R","S","T","U","V","W","X","Y","Z">>

Digits == <<"0","1","2","3","4","5","6","7","8","9">>

Whitespace == {" ", "\n", "\t"}

IndexIn(c, table) == CHOOSE i \in 1..Len(table) : table[i] = c

IsIn(c, table) == \E i \in 1..Len(table) : table[i] = c

UpperChar(c) == IF IsIn(c, LowerLetters) THEN UpperLetters[IndexIn(c, LowerLetters)] ELSE c

LowerChar(c) == IF IsIn(c, UpperLetters) THEN LowerLetters[IndexIn(c, UpperLetters)] ELSE c

\* str.upper()
StrUpper(s) == [i \in 1..Len(s) |-> UpperChar(s[i])]

\* str.lower()
StrLower(s) == [i \in 1..Len(s) |-> LowerChar(s[i])]

\* str.strip()
RECURSIVE LStrip(_)
LStrip(s) == IF s # <<>> /\ Head(s) \in Whitespace THEN LStrip(Tail(s)) ELSE s

RECURSIVE RStrip(_)
RStrip(s) ==
    IF s # <<>> /\ s[Len(s)] \in Whitespace THEN RStrip(SubSeq(s, 1, Len(s) - 1)) ELSE s

StrStrip(s) == RStrip(LStrip(s))

\* the operator "t in s" on strings
Contains(s, t) ==
    \E i \in 1..(Len(s) - Len(t) + 1) : SubSeq(s, i, i + Len(t) - 1) = t

\* str.split() with no argument: the maximal runs of non-whitespace characters
RECURSIVE SplitFrom(_, _, _)
SplitFrom(s, word, acc) ==
    IF s = <<>>
    THEN IF word = <<>> THEN acc ELSE Append(acc, word)
    ELSE IF Head(s) \in Whitespace
         THEN SplitFrom(Tail(s), <<>>, IF word = <<>> THEN acc ELSE Append(acc, word))
         ELSE SplitFrom(Tail(s), Append(word, Head(s)), acc)

StrSplit(s) == SplitFrom(s, <<>>, <<>>)

\* str.isdigit()
IsDigitStr(w) == w # <<>> /\ \A i \in 1..Len(w) : IsIn(w[i], Digits)

\* int(word) of an all-digit word
RECURSIVE IntOf(_)
IntOf(w) ==
    IF w = <<>> THEN 0
    ELSE 10 * IntOf(SubSeq(w, 1, Len(w) - 1)) + (IndexIn(w[Len(w)], Digits) - 1)

-----------------------------------------------------------------------------
(* Handler tags and the router's parse of the model's reply *)

PREFERENCE_LEARNER == "PREFERENCE_LEARNER"
MEAL_RECOMMENDER == "MEAL_RECOMMENDER"
FEEDBACK_ANALYZER == "FEEDBACK_ANALYZER"
KITCHEN_ROUTER == "KITCHEN_ROUTER"

HandlerTags == {PREFERENCE_LEARNER, MEAL_RECOMMENDER, FEEDBACK_ANALYZER, KITCHEN_ROUTER}

TokPREFERENCE == <<"P","R","E","F","E","R","E","N","C","E">>
TokMEAL == <<"M","E","A","L">>
TokRECOMMEND == <<"R","E","C","O","M","M","E","N","D">>
TokFEEDBACK == <<"F","E","E","D","B","A","C","K">>
TokKITCHEN == <<"K","I","T","C","H","E","N">>

\* a plausible slip: the FEEDBACK test placed before the MEAL/RECOMMEND test
ExtractAgentFeedbackFirst(response) ==
    LET r == StrUpper(StrStrip(response)) IN
    IF Contains(r, TokPREFERENCE) THEN PREFERENCE_LEARNER
    ELSE IF Contains(r, TokFEEDBACK) THEN FEEDBACK_ANALYZER
    ELSE IF Contains(r, TokMEAL) \/ Contains(r, TokRECOMMEND) THEN MEAL_RECOMMENDER
    ELSE IF Contains(r, TokKITCHEN) THEN KITCHEN_ROUTER
    ELSE PREFERENCE_LEARNER

\* route_conversation, lines 58-70: the if/elif chain over response.strip().upper()
ExtractAgent(response) ==
    LET r == StrUpper(StrStrip(response)) IN
    IF Contains(r, TokPREFERENCE) THEN PREFERENCE_LEARNER
    ELSE IF Contains(r, TokMEAL) \/ Contains(r, TokRECOMMEND) THEN MEAL_RECOMMENDER
    ELSE IF Contains(r, TokFEEDBACK) THEN FEEDBACK_ANALYZER
    ELSE IF Contains(r, TokKITCHEN) THEN KITCHEN_ROUTER
    ELSE PREFERENCE_LEARNER

\* a plausible slip: the except clause re-raises instead of returning the default
RouteOutcomeReraise(outcome, response) ==
    IF outcome = "ok" THEN [raised |-> FALSE, agent |-> ExtractAgent(response)]
    ELSE [raised |-> TRUE, agent |-> "none"]

\* a plausible slip: the except clause defaults to a handler that absorbs failures
RouteOutcomeDefaultsFeedback(outcome, response) ==
    IF outcome = "ok" THEN [raised |-> FALSE, agent |-> ExtractAgent(response)]
    ELSE [raised |-> FALSE, agent |-> FEEDBACK_ANALYZER]

\* route_conversation, lines 51-73: the try/except around generate_completion.
\* outcome is how generate_completion ended: "ok" with the text response, or an
\* exception ("unhealthy": RuntimeError of line 41 of llm_service, "status":
\* raise_for_status, "timeout": the httpx timeout).
RouteOutcome(outcome, response) ==
    IF outcome = "ok" THEN [raised |-> FALSE, agent |-> ExtractAgent(response)]
    ELSE [raised |-> FALSE, agent |-> PREFERENCE_LEARNER]

-----------------------------------------------------------------------------
(* Inputs of the model *)

Users == {"u1", "u2"}

\* The user messages of the model, with the characters of each
MsgVegan == "Vegan please"
MsgCalorie == "500 calorie keto"
MsgShout == "VEGAN 1800 calories"

Messages == {MsgVegan, MsgCalorie, MsgShout}

Chars(text) ==
    CASE text = MsgVegan ->
            <<"V","e","g","a","n"," ","p","l","e","a","s","e">>
      [] text = MsgCalorie ->
            <<"5","0","0"," ","c","a","l","o","r","i","e"," ","k","e","t","o">>
      [] text = MsgShout ->
            <<"V","E","G","A","N"," ","1","8","0","0"," ","c","a","l","o","r","i","e","s">>
      [] text = "PREFERENCE_LEARNER" ->
            <<"P","R","E","F","E","R","E","N","C","E","_","L","E","A","R","N","E","R">>
      [] text = "meal_recommender\n" ->
            <<"m","e","a","l","_","r","e","c","o","m","m","e","n","d","e","r","\n">>
      [] text = "Feedback" ->
            <<"F","e","e","d","b","a","c","k">>
      [] text = "KITCHEN_ROUTER" ->
            <<"K","I","T","C","H","E","N","_","R","O","U","T","E","R">>
      [] text = "UNKNOWN" ->
            <<"U","N","K","N","O","W","N">>

\* What the model answers to the routing prompt in the full pipeline
RouterReplies == {"PREFERENCE_LEARNER", "meal_recommender\n", "Feedback", "KITCHEN_ROUTER", "UNKNOWN"}

\* What the model answers to the Preference Learner's and the Meal Recommender's prompt
NarrativeReplies == {"What cuisines do you enjoy?"}

\* conversation ids a client may pass without having been given them; None and ""
\* ask for a generated id
NoneId == "None"
ExplicitConvIds == {"c1"}

\* process_message, line 273: conv_{user_id}_{strftime('%Y%m%d_%H%M%S')}; the stamp
\* has a resolution of one second, the unit of clock
GenConvId(user_id, now) == "conv_" \o user_id \o "_" \o ToString(now)

\* data/meals.json: the catalog items in file order, with the fields the index keeps
Meals ==
    << [id |-> "meal_001", name |-> "Grilled Chicken Quinoa Bowl", category |-> "lunch"],
       [id |-> "meal_002", name |-> "Mediterranean Falafel Wrap", category |-> "lunch"],
       [id |-> "meal_003", name |-> "Salmon Teriyaki with Brown Rice", category |-> "dinner"],
       [id |-> "meal_004", name |-> "Keto Beef and Veggie Stir Fry", category |-> "dinner"],
       [id |-> "meal_005", name |-> "Vegan Buddha Bowl", category |-> "lunch"],
       [id |-> "meal_006", name |-> "Overnight Oats", category |-> "breakfast"] >>

\* the ids of the catalog, in file order
Catalog == [i \in 1..Len(Meals) |-> Meals[i].id]

TopK == 5            \* handle_meal_recommendation: top_k=5
MaxRecommended == 3  \* handle_meal_recommendation: relevant_meals[:3]
HistoryWindow == 5   \* route_conversation: conversation_history[-5:]
PromptWindow == 3    \* get_routing_prompt: conversation_history[-3:]
ContentShown == 100  \* get_routing_prompt: msg['content'][:100]

\* confidences, in hundredths
ConfPreference == 90
ConfMealFound == 95
ConfMealEmpty == 50
ConfFeedback == 90
ConfKitchen == 85
ConfFallback == 70

-----------------------------------------------------------------------------
(* Python dicts as functions; Python values the handlers inspect *)

EmptyDict == <<>>

HasKey(d, k) == k \in DOMAIN d

\* dict.get(key, default)
DictGet(d, k, default) == IF k \in DOMAIN d THEN d[k] ELSE default

\* d[k] = v
DictSet(d, k, v) == [x \in (DOMAIN d) \cup {k} |-> IF x = k THEN v ELSE d[x]]

\* del d[k]
DictDel(d, k) == [x \in (DOMAIN d) \ {k} |-> d[x]]

PyStr(s) == [type |-> "str", val |-> s]
PyTrue == [type |-> "bool", val |-> "True"]
PyFalse == [type |-> "bool", val |-> "False"]
PyNone == [type |-> "NoneType", val |-> "None"]

\* truth value of a Python object in an if
Truthy(v) == v \notin {PyFalse, PyNone, PyStr("")}

\* rendering of a Python object inside an f-string
Format(v) == v.val

-----------------------------------------------------------------------------
(* llm_service: the completion client *)

\* What the GET /api/tags of the health probe may do
ProbeAnswers == {"200", "503", "exception"}

\* a plausible slip: any response of the backend counts as healthy
check_ollama_health_any(answer) == answer # "exception"

\* check_ollama_health: True only on status 200; an exception gives False
check_ollama_health(answer) == answer = "200"

\* How the POST /api/chat of generate_completion may end
PostOutcomes == {"ok", "status", "timeout"}

\* Raw texts of a structured completion are sequences of tokens: a fence opener
\* FenceJson, a bare fence Fence, whitespace, prose, or the text of one JSON document
\* A TLA+ string cannot hold a backquote: <fence> stands for the three backquotes.
FenceJson == "<fence>json"
Fence == "<fence>"
Newline == "\n"
Prose == "Here is the result:"
NotJson == "sentiment is negative"

DocNegative ==
    "{\"sentiment\": \"negative\", \"suggested_response\": \"We will fix this.\", \"requires_kitchen_action\": true}"
DocPositive == "{\"sentiment\": \"positive\", \"requires_kitchen_action\": false}"
DocEmpty == "{}"
DocArray == "[]"
DocTruthy == "{\"requires_kitchen_action\": \"no\"}"

JsonDocs == {DocNegative, DocPositive, DocEmpty, DocArray, DocTruthy}

\* json.loads of the text of one document
JsonValue(doc) ==
    CASE doc = DocNegative ->
            [kind |-> "dict",
             items |-> [k \in {"sentiment", "suggested_response", "requires_kitchen_action"} |->
                          CASE k = "sentiment" -> PyStr("negative")
                            [] k = "suggested_response" -> PyStr("We will fix this.")
                            [] k = "requires_kitchen_action" -> PyTrue]]
      [] doc = DocPositive ->
            [kind |-> "dict",
             items |-> [k \in {"sentiment", "requires_kitchen_action"} |->
                          CASE k = "sentiment" -> PyStr("positive")
                            [] k = "requires_kitchen_action" -> PyFalse]]
      [] doc = DocEmpty -> [kind |-> "dict", items |-> EmptyDict]
      [] doc = DocArray -> [kind |-> "list", items |-> EmptyDict]
      [] doc = DocTruthy ->
            [kind |-> "dict",
             items |-> [k \in {"requires_kitchen_action"} |-> PyStr("no")]]

NoJson == [kind |-> "none", items |-> EmptyDict]

\* What the model answers to a structured-extraction prompt
StructuredReplies ==
    { <<DocNegative>>, <<DocPositive>>, <<DocEmpty>>, <<DocArray>>, <<DocTruthy>>,
      <<FenceJson, Newline, DocNegative, Newline, Fence>>,
      <<Prose, Newline, Fence, Newline, DocPositive, Newline, Fence>>,
      <<Prose>>,
      <<FenceJson, Newline, NotJson, Newline, Fence>>,
      <<Prose, Newline, FenceJson, Newline, DocEmpty>>,
      <<Fence, Newline, NotJson, Newline, Fence>>,
      <<Fence, Newline, DocPositive, Newline, Fence, Newline, FenceJson, Newline, NotJson, Newline, Fence>>,
      <<FenceJson, Newline, DocNegative, Newline, Fence, Newline, Fence, Newline, DocPositive, Newline, Fence>>,
      <<DocEmpty, Newline, DocEmpty>> }

\* strip() of a token text, then json.loads: a value exactly when what is left after
\* the surrounding whitespace is one JSON document
RECURSIVE StripTokens(_)
StripTokens(toks) ==
    IF toks # <<>> /\ Head(toks) = Newline THEN StripTokens(Tail(toks))
    ELSE IF toks # <<>> /\ toks[Len(toks)] = Newline
         THEN StripTokens(SubSeq(toks, 1, Len(toks) - 1))
         ELSE toks

json_loads(toks) ==
    LET t == StripTokens(toks) IN
    IF Len(t) = 1 /\ t[1] \in JsonDocs
    THEN [ok |-> TRUE, value |-> JsonValue(t[1])]
    ELSE [ok |-> FALSE, value |-> NoJson]

HasToken(toks, sep) == \E i \in 1..Len(toks) : toks[i] = sep

\* A text splits at every occurrence of the separator; FenceJson begins with Fence
IsSeparator(tok, sep) == tok = sep \/ (sep = Fence /\ tok = FenceJson)

\* what is left of the token FenceJson after a split at Fence
Remainder(tok, sep) == IF sep = Fence /\ tok = FenceJson THEN <<"json">> ELSE <<>>

\* text.split(sep): the list of pieces
RECURSIVE SplitTokens(_, _, _, _)
SplitTokens(toks, sep, piece, acc) ==
    IF toks = <<>> THEN Append(acc, piece)
    ELSE IF IsSeparator(Head(toks), sep)
         THEN SplitTokens(Tail(toks), sep, Remainder(Head(toks), sep), Append(acc, piece))
         ELSE SplitTokens(Tail(toks), sep, Append(piece, Head(toks)), acc)

StrSplitAt(toks, sep) == SplitTokens(toks, sep, <<>>, <<>>)

\* a plausible slip: the fenced content is never tried
ParseStructuredDirectOnly(response) == json_loads(response)

\* generate_structured_output, lines 150-163: direct parse, then the json-fenced
\* block, then the generic fenced block; ok = FALSE is the JSONDecodeError / ValueError
ParseStructured(response) ==
    IF json_loads(response).ok THEN json_loads(response)
    ELSE IF HasToken(response, FenceJson)
         THEN json_loads(StrSplitAt(StrSplitAt(response, FenceJson)[2], Fence)[1])
         ELSE IF HasToken(response, Fence)
              THEN json_loads(StrSplitAt(StrSplitAt(response, Fence)[2], Fence)[1])
              ELSE [ok |-> FALSE, value |-> NoJson]

\* generate_structured_output as a whole: outcome is how its generate_completion
\* call ended; an exception of the call goes through, a reply is parsed
StructuredOutcome(outcome, response) ==
    IF outcome # "ok" THEN [ok |-> FALSE, kind |-> outcome, value |-> NoJson]
    ELSE IF ParseStructured(response).ok
         THEN [ok |-> TRUE, kind |-> "ok", value |-> ParseStructured(response).value]
         ELSE [ok |-> FALSE, kind |-> "malformed", value |-> NoJson]

-----------------------------------------------------------------------------
(* llm_service on its own: the three calls that send a request to the backend *)

ClientOps == {"generate_completion", "generate_streaming_completion", "embed_text"}

GetTags == "GET /api/tags"

\* the request each call sends after its health check
RequestOf(op) == IF op = "embed_text" THEN "POST /api/embeddings" ELSE "POST /api/chat"

ClientIdle == llm_call = <<>>

RunningCall == llm_call[Len(llm_call)]

SetRunningCall(frame) == [llm_call EXCEPT ![Len(llm_call)] = frame]

\* a caller enters one of the three functions: its first statement awaits
\* check_ollama_health, which sends the probe
ClientStart ==
    \E op \in ClientOps :
        /\ Len(llm_call) < MaxClientCalls
        /\ llm_call # <<>> => RunningCall.pc \in {"returned", "raised"}
        /\ llm_call' = Append(llm_call,
               [op |-> op, pc |-> "probe", probe_answer |-> "none",
                sent |-> <<GetTags>>, error |-> "none"])
        /\ UNCHANGED <<mainVars, routerVars, init_log, rag_call, routing_prompt, extraction>>

\* the probe is answered: RuntimeError when check_ollama_health gave False,
\* otherwise the request of the call is sent
ClientProbed ==
    \E answer \in ProbeAnswers :
        /\ llm_call # <<>>
        /\ RunningCall.pc = "probe"
        /\ llm_call' = SetRunningCall(
               IF check_ollama_health(answer)
               THEN [RunningCall EXCEPT !.pc = "post", !.probe_answer = answer,
                                        !.sent = Append(@, RequestOf(RunningCall.op))]
               ELSE [RunningCall EXCEPT !.pc = "raised", !.probe_answer = answer,
                                        !.error = "RuntimeError"])
        /\ UNCHANGED <<mainVars, routerVars, init_log, rag_call, routing_prompt, extraction>>

\* the request is answered: raise_for_status or the timeout raise, a reply returns
ClientAnswered ==
    \E outcome \in PostOutcomes :
        /\ llm_call # <<>>
        /\ RunningCall.pc = "post"
        /\ llm_call' = SetRunningCall(
               IF outcome = "ok"
               THEN [RunningCall EXCEPT !.pc = "returned"]
               ELSE [RunningCall EXCEPT !.pc = "raised", !.error = outcome])
        /\ UNCHANGED <<mainVars, routerVars, init_log, rag_call, routing_prompt, extraction>>

-----------------------------------------------------------------------------
(* agent_service: preference extraction and the per-user context *)

KwVegetarian == <<"v","e","g","e","t","a","r","i","a","n">>
KwVegan == <<"v","e","g","a","n">>
KwKeto == <<"k","e","t","o">>
KwGlutenFreeSp == <<"g","l","u","t","e","n"," ","f","r","e","e">>
KwGlutenFreeHy == <<"g","l","u","t","e","n","-","f","r","e","e">>
KwDairyFreeSp == <<"d","a","i","r","y"," ","f","r","e","e">>
KwDairyFreeHy == <<"d","a","i","r","y","-","f","r","e","e">>
KwHalal == <<"h","a","l","a","l">>
KwCalorie == <<"c","a","l","o","r","i","e">>

CalorieLow == 200    \* int(word) > 200
CalorieHigh == 5000  \* int(word) < 5000

\* lines 320-332: the dietary tags, appended in this order
DietaryTags(user_lower) ==
    (IF Contains(user_lower, KwVegetarian) THEN <<"vegetarian">> ELSE <<>>)
    \o (IF Contains(user_lower, KwVegan) THEN <<"vegan">> ELSE <<>>)
    \o (IF Contains(user_lower, KwKeto) THEN <<"keto">> ELSE <<>>)
    \o (IF Contains(user_lower, KwGlutenFreeSp) \/ Contains(user_lower, KwGlutenFreeHy)
        THEN <<"gluten_free">> ELSE <<>>)
    \o (IF Contains(user_lower, KwDairyFreeSp) \/ Contains(user_lower, KwDairyFreeHy)
        THEN <<"dairy_free">> ELSE <<>>)
    \o (IF Contains(user_lower, KwHalal) THEN <<"halal">> ELSE <<>>)

\* a plausible slip: the limits taken as part of the range
IsCalorieWordInclusive(w) == IsDigitStr(w) /\ IntOf(w) >= CalorieLow /\ IntOf(w) <= CalorieHigh

\* lines 340-344: the first all-digit word strictly between the two limits
IsCalorieWord(w) == IsDigitStr(w) /\ IntOf(w) > CalorieLow /\ IntOf(w) < CalorieHigh

CalorieTargets(words) ==
    LET hits == {i \in 1..Len(words) : IsCalorieWord(words[i])} IN
    IF hits = {} THEN <<>>
    ELSE <<IntOf(words[CHOOSE i \in hits : \A j \in hits : i <= j])>>

\* _extract_preferences_from_conversation, lines 314-346, on the characters of
\* the user message
ExtractPreferencesOf(user_msg_chars) ==
    LET user_lower == StrLower(user_msg_chars)
        tags == DietaryTags(user_lower)
        cal == IF Contains(user_lower, KwCalorie)
               THEN CalorieTargets(StrSplit(user_lower)) ELSE <<>>
        p1 == IF tags # <<>> THEN DictSet(EmptyDict, "dietary_restrictions", tags)
              ELSE EmptyDict
    IN  IF cal # <<>> THEN DictSet(p1, "calorie_target", cal[1]) ELSE p1

\* _extract_preferences_from_conversation: the dict of extracted preferences
ExtractPreferences(user_msg, assistant_msg) == ExtractPreferencesOf(Chars(user_msg))

Range(seq) == {seq[i] : i \in 1..Len(seq)}

\* A list whose order the code does not fix (the order list(set(...)) gives) is the
\* bag of its elements: how often each occurs
ListBag(seq) == [x \in Range(seq) |-> Cardinality({i \in 1..Len(seq) : seq[i] = x})]

\* existing + value, line 358, on a stored list and an extracted list
ListConcat(existing, value) == existing (+) ListBag(value)

\* list(set(...)), line 358
ListOfSet(list) == SetToBag(BagToSet(list))

\* a plausible slip: the lists concatenated without the set
MergePreferencesConcat(ctx, new_preferences) ==
    [key \in (DOMAIN ctx) \cup (DOMAIN new_preferences) |->
        IF key \in DOMAIN new_preferences
        THEN IF key = "dietary_restrictions"
             THEN ListConcat(DictGet(ctx, key, EmptyBag), new_preferences[key])
             ELSE new_preferences[key]
        ELSE ctx[key]]

\* _update_user_context, lines 355-360, for one user's dict
MergePreferences(ctx, new_preferences) ==
    [key \in (DOMAIN ctx) \cup (DOMAIN new_preferences) |->
        IF key \in DOMAIN new_preferences
        THEN IF key = "dietary_restrictions"
             THEN ListOfSet(ListConcat(DictGet(ctx, key, EmptyBag), new_preferences[key]))
             ELSE new_preferences[key]
        ELSE ctx[key]]

\* a plausible slip: one context shared by all the users of the table
UpdateUserContextShared(table, user_id, new_preferences) ==
    [u \in DOMAIN table \cup {user_id} |->
        MergePreferences(DictGet(table, u, EmptyDict), new_preferences)]

\* _update_user_context: the table after the merge for user_id
UpdateUserContext(table, user_id, new_preferences) ==
    DictSet(table, user_id,
            MergePreferences(DictGet(table, user_id, EmptyDict), new_preferences))

-----------------------------------------------------------------------------
(* rag_service: the index *)

\* the chroma client holds no collection of the configured name
NoCollection == [exists |-> FALSE, ids |-> <<>>, metadatas |-> <<>>]

\* create_collection, lines 36-39
CreatedCollection == [exists |-> TRUE, ids |-> <<>>, metadatas |-> <<>>]

\* _load_meal_data, lines 76-84: the metadata kept with an item
MealMetadata(meal) == [id |-> meal.id, name |-> meal.name, category |-> meal.category]

\* _load_meal_data, lines 65-93: one add of all the items of the file
CollectionAdd(store, meals_data) ==
    [exists |-> TRUE,
     ids |-> store.ids \o [i \in 1..Len(meals_data) |-> meals_data[i].id],
     metadatas |-> store.metadatas \o [i \in 1..Len(meals_data) |-> MealMetadata(meals_data[i])]]

\* a plausible slip: the catalog loaded on every call, into the collection found
InitializedStoreReloads(store, load_ok) ==
    IF load_ok THEN CollectionAdd(IF store.exists THEN store ELSE CreatedCollection, Meals)
    ELSE IF store.exists THEN store ELSE CreatedCollection

\* initialize_rag_engine, lines 32-43: the collection the call leaves.  A collection
\* found is taken as it is; otherwise one is created and _load_meal_data runs, and an
\* exception of it (file unreadable, a key missing) comes before the add of line 89
InitializedStore(store, load_ok) ==
    IF store.exists THEN store
    ELSE IF load_ok THEN CollectionAdd(CreatedCollection, Meals) ELSE CreatedCollection

\* initialize_rag_engine returns normally unless _load_meal_data raised
InitializeReturns(store, load_ok) == store.exists \/ load_ok

-----------------------------------------------------------------------------
(* rag_service: retrieval *)

\* the order by distance is set by the query: a rotation of the stored order
Rotate(store, r) == [i \in 1..Len(store) |-> store[((i + r - 1) % Len(store)) + 1]]

Rotations(store, shifts) == {Rotate(store, r) : r \in shifts}

FirstN(seq, n) == SubSeq(seq, 1, IF Len(seq) < n THEN Len(seq) ELSE n)

\* search_meals, lines 150-168: the n_results nearest entries, nearest first, each
\* as a dict with its id
QueryResults(store, max_results, shifts) ==
    IF store = <<>> THEN {<<>>}
    ELSE {[i \in 1..Len(FirstN(rot, max_results)) |-> [id |-> rot[i]]] :
             rot \in Rotations(store, shifts)}

\* get_contextual_meals -> search_meals: "NotInitialized" is the RuntimeError of
\* line 139, "QueryError" an exception of the collection's query
RetrievalOutcomes(collection, store, top_k, shifts) ==
    IF ~collection
    THEN {[kind |-> "NotInitialized", meals |-> <<>>]}
    ELSE {[kind |-> "QueryError", meals |-> <<>>]}
         \cup {[kind |-> "ok", meals |-> ms] : ms \in QueryResults(store, top_k, shifts)}

-----------------------------------------------------------------------------
(* agent_service: the four handlers, from the outcome of their outbound call to  *)
(* what they return.  Each gives [raised, outcome, result]: raised = TRUE is an  *)
(* exception leaving the handler, with no result.                                *)

MealEmptyReply ==
    "I couldn't find any meals matching your criteria right now. Could you tell me more about what you're looking for?"
FeedbackFallbackReply ==
    "Thank you for your feedback! We've recorded your comments and will review them shortly."
FeedbackNegativePrefix == "Thank you for your feedback. "
FeedbackNegativeDefault == "We take your concerns seriously and will work to improve."
FeedbackPositivePrefix == "Thank you for your feedback! "
FeedbackPositiveDefault == "We appreciate you taking the time to share your experience."
KitchenForwardedReply ==
    "I've forwarded your special request to our kitchen team. They'll review it and get back to you within 24 hours!"
KitchenDirectReply ==
    "I can help you with that! Let me know what you'd like to change about your meals."
KitchenFallbackReply ==
    "I've noted your request and will make sure the kitchen team reviews it!"

Raised(kind) == [raised |-> TRUE, outcome |-> kind, result |-> EmptyDict]
Returned(kind, result) == [raised |-> FALSE, outcome |-> kind, result |-> result]

\* a plausible slip: the completion call wrapped, with a canned reply on failure
handle_preference_learning_wrapped(outcome, response, message) ==
    IF outcome # "ok"
    THEN Returned(outcome, [message |-> "Tell me more about your preferences.",
                            agent_used |-> PREFERENCE_LEARNER,
                            confidence |-> ConfFallback])
    ELSE Returned("ok", [message |-> response,
                         agent_used |-> PREFERENCE_LEARNER,
                         confidence |-> ConfPreference,
                         extracted_preferences |-> ExtractPreferences(message, response)])

\* handle_preference_learning, lines 96-112: the completion call is not wrapped
handle_preference_learning(outcome, response, message) ==
    IF outcome # "ok" THEN Raised(outcome)
    ELSE Returned("ok", [message |-> response,
                         agent_used |-> PREFERENCE_LEARNER,
                         confidence |-> ConfPreference,
                         extracted_preferences |-> ExtractPreferences(message, response)])

\* a plausible slip: the test of line 132 dropped
MealsFoundAlways(relevant_meals) == TRUE

\* handle_meal_recommendation, line 132: "if not relevant_meals" is false
MealsFound(relevant_meals) == relevant_meals # <<>>

\* a plausible slip: the early return built without its confidence
MealEmptyResultBare ==
    [message |-> MealEmptyReply,
     agent_used |-> MEAL_RECOMMENDER,
     recommendations |-> <<>>]

\* handle_meal_recommendation, lines 133-138: the reply of the empty retrieval
MealEmptyResult ==
    [message |-> MealEmptyReply,
     agent_used |-> MEAL_RECOMMENDER,
     confidence |-> ConfMealEmpty,
     recommendations |-> <<>>]

\* get_contextual_meals, line 218
ContextExplanation(meals, user_query) ==
    "Found " \o ToString(Len(meals)) \o " meals matching: " \o user_query

\* a plausible slip: the slice of line 150 left out
RecommendedIdsAll(relevant_meals) ==
    [i \in 1..Len(relevant_meals) |-> relevant_meals[i].id]

\* handle_meal_recommendation, line 150: [meal['id'] for meal in relevant_meals[:3]]
RecommendedIds(relevant_meals) ==
    [i \in 1..Len(FirstN(relevant_meals, MaxRecommended)) |-> relevant_meals[i].id]

\* handle_meal_recommendation, lines 143-158: the completion call is not wrapped
handle_meal_recommendation(outcome, response, message, relevant_meals) ==
    IF outcome # "ok" THEN Raised(outcome)
    ELSE Returned("ok",
            [message |-> response,
             agent_used |-> MEAL_RECOMMENDER,
             confidence |-> ConfMealFound,
             recommendations |-> RecommendedIds(relevant_meals),
             context |-> ContextExplanation(relevant_meals, message)])

\* a plausible slip: the fallback keeps the success confidence
FeedbackFallbackResultHigh ==
    [message |-> FeedbackFallbackReply,
     agent_used |-> FEEDBACK_ANALYZER,
     confidence |-> ConfFeedback]

\* handle_feedback_analysis, lines 197-201
FeedbackFallbackResult ==
    [message |-> FeedbackFallbackReply,
     agent_used |-> FEEDBACK_ANALYZER,
     confidence |-> ConfFallback]

\* handle_feedback_analysis, lines 184-194, for a dict analysis
FeedbackResult(analysis) ==
    [message |->
        IF DictGet(analysis.items, "sentiment", PyNone) = PyStr("negative")
        THEN FeedbackNegativePrefix
             \o Format(DictGet(analysis.items, "suggested_response", PyStr(FeedbackNegativeDefault)))
        ELSE FeedbackPositivePrefix
             \o Format(DictGet(analysis.items, "suggested_response", PyStr(FeedbackPositiveDefault))),
     agent_used |-> FEEDBACK_ANALYZER,
     confidence |-> ConfFeedback,
     analysis |-> analysis]

\* a plausible slip: only the failures of the backend caught, not the parse error
handle_feedback_analysis_narrow(structured) ==
    IF ~structured.ok
    THEN IF structured.kind = "malformed" THEN Raised("malformed")
         ELSE Returned(structured.kind, FeedbackFallbackResult)
    ELSE IF structured.value.kind # "dict" THEN Raised("AttributeError")
         ELSE Returned("ok", FeedbackResult(structured.value))

\* handle_feedback_analysis, lines 169-201: structured is what generate_structured_output
\* did; analysis.get on a value that is no dict is an AttributeError, caught like the rest
handle_feedback_analysis(structured) ==
    IF ~structured.ok THEN Returned(structured.kind, FeedbackFallbackResult)
    ELSE IF structured.value.kind # "dict" THEN Returned("AttributeError", FeedbackFallbackResult)
         ELSE Returned("ok", FeedbackResult(structured.value))

\* a plausible slip: the fallback does not escalate
KitchenFallbackResultDropped ==
    [message |-> KitchenFallbackReply,
     agent_used |-> KITCHEN_ROUTER,
     confidence |-> ConfFallback,
     requires_kitchen_action |-> PyFalse]

\* handle_kitchen_routing, lines 247-252
KitchenFallbackResult ==
    [message |-> KitchenFallbackReply,
     agent_used |-> KITCHEN_ROUTER,
     confidence |-> ConfFallback,
     requires_kitchen_action |-> PyTrue]

\* handle_kitchen_routing, lines 224-244, for a dict routing_info; the request id of
\* line 228 is stored nowhere
KitchenResult(routing_info) ==
    [message |->
        IF Truthy(DictGet(routing_info.items, "requires_kitchen_action", PyNone))
        THEN KitchenForwardedReply ELSE KitchenDirectReply,
     agent_used |-> KITCHEN_ROUTER,
     confidence |-> ConfKitchen,
     requires_kitchen_action |-> DictGet(routing_info.items, "requires_kitchen_action", PyFalse),
     routing_info |-> routing_info]

\* handle_kitchen_routing, lines 212-252
handle_kitchen_routing(structured) ==
    IF ~structured.ok THEN Returned(structured.kind, KitchenFallbackResult)
    ELSE IF structured.value.kind # "dict" THEN Returned("AttributeError", KitchenFallbackResult)
         ELSE Returned("ok", KitchenResult(structured.value))

-----------------------------------------------------------------------------
(* process_message: the frames and the steps between suspension points *)

Calls == 1..MaxCalls

NoStructured == [ok |-> FALSE, kind |-> "none", value |-> NoJson]

IdleFrame ==
    [pc |-> "idle",              \* idle, route_probe, route_post, handler_probe,
                                 \* handler_post, returned, raised, closed
     message |-> "", user_id |-> "", conversation_id |-> "",
     generated |-> FALSE,        \* the call came without an id and made one up
     agent |-> "none",           \* the router's decision
     handler |-> "none",         \* the handler that was invoked
     route_outcome |-> "none",   \* how the router's completion call ended
     handler_outcome |-> "none", \* how the handler's outbound call ended
     relevant_meals |-> <<>>,    \* what contextual retrieval returned
     structured |-> NoStructured,  \* what generate_structured_output did
     handled |-> EmptyDict,      \* the dict the handler returned
     result |-> EmptyDict,       \* the dict process_message returned
     error |-> "none",           \* the exception that left process_message
     route_probes |-> 0, route_posts |-> 0,      \* requests the router sent
     handler_probes |-> 0, handler_posts |-> 0,  \* requests the handler sent
     queries |-> 0,                              \* retrieval queries
     route_probe_answer |-> "none",    \* what the router's health probe got
     handler_probe_answer |-> "none",  \* what the handler's health probe got
     raw_structured |-> <<>>,    \* the text generate_structured_output had to parse
     invoked |-> <<>>]           \* the handlers called, in order

InFlightPcs == {"route_probe", "route_post", "handler_probe", "handler_post"}

InFlightOn(cid, except) ==
    \E j \in Calls \ {except} : calls[j].pc \in InFlightPcs /\ calls[j].conversation_id = cid

\* One coroutine runs at a time, and the step that returns from process_message (or
\* raises) runs on into the endpoint that called it, with no suspension between
LoopFree == \A j \in Calls : calls[j].pc \notin {"returned", "raised"}

ChatMessage(role, content) == [role |-> role, content |-> content]

\* a plausible slip: the reply inserted at the front of the history
AppendAssistantFront(history, reply) == <<ChatMessage("assistant", reply)>> \o history

\* process_message, lines 304-305
AppendAssistant(history, reply) == Append(history, ChatMessage("assistant", reply))

\* a plausible slip: the history assigned afresh instead of appended to
AppendUserAfresh(table, cid, message) ==
    DictSet(table, cid, <<ChatMessage("user", message)>>)

\* process_message, lines 275-280: look up or create the list, append the user message
AppendUser(table, cid, message) ==
    DictSet(table, cid, Append(DictGet(table, cid, <<>>), ChatMessage("user", message)))

\* a plausible slip: the user message of the failed turn taken back
RaiseRollingBack(k, frame, err, contexts) ==
    LET cid == frame.conversation_id IN
    /\ calls' = [calls EXCEPT ![k] = [frame EXCEPT !.pc = "raised", !.error = err]]
    /\ user_contexts' = contexts
    /\ disturbed' = disturbed \cup {cid}
    /\ conversations' =
          IF cid \in DOMAIN conversations /\ conversations[cid] # <<>>
          THEN DictSet(conversations, cid,
                       SubSeq(conversations[cid], 1, Len(conversations[cid]) - 1))
          ELSE conversations
    /\ UNCHANGED turn_log

\* an exception leaves process_message: nothing is undone
Raise(k, frame, err, contexts) ==
    /\ calls' = [calls EXCEPT ![k] = [frame EXCEPT !.pc = "raised", !.error = err]]
    /\ user_contexts' = contexts
    /\ disturbed' = disturbed \cup {frame.conversation_id}
    /\ UNCHANGED <<conversations, turn_log>>

\* a plausible slip: the history fetched with a default, so a deleted conversation
\* comes back with the reply alone
FinishRecreating(k, frame, result, contexts) ==
    LET cid == frame.conversation_id IN
    /\ conversations' =
           DictSet(conversations, cid,
                   AppendAssistant(DictGet(conversations, cid, <<>>), result.message))
    /\ calls' = [calls EXCEPT ![k] =
           [frame EXCEPT !.pc = "returned",
                         !.handled = result,
                         !.result = DictSet(result, "conversation_id", cid)]]
    /\ user_contexts' = contexts
    /\ turn_log' = DictSet(turn_log, cid,
           Append(DictGet(turn_log, cid, <<>>), <<frame.message, result.message>>))
    /\ UNCHANGED disturbed

\* process_message, lines 303-310, after the handler returned result; the lookup of
\* line 305 is a KeyError when the conversation was deleted meanwhile
Finish(k, frame, result, contexts) ==
    LET cid == frame.conversation_id IN
    IF cid \notin DOMAIN conversations
    THEN Raise(k, [frame EXCEPT !.handled = result], "KeyError", contexts)
    ELSE /\ conversations' =
                DictSet(conversations, cid, AppendAssistant(conversations[cid], result.message))
         /\ calls' = [calls EXCEPT ![k] =
                [frame EXCEPT !.pc = "returned",
                              !.handled = result,
                              !.result = DictSet(result, "conversation_id", cid)]]
         /\ user_contexts' = contexts
         /\ turn_log' = DictSet(turn_log, cid,
                Append(DictGet(turn_log, cid, <<>>), <<frame.message, result.message>>))
         /\ UNCHANGED disturbed

\* what a handler gave back: an exception goes on, a result is finished
Settle(k, frame, out, contexts) ==
    IF out.raised
    THEN Raise(k, [frame EXCEPT !.handler_outcome = out.outcome], "HandlerError", contexts)
    ELSE Finish(k, [frame EXCEPT !.handler_outcome = out.outcome], out.result, contexts)

\* a plausible slip: two branches of the chain with their handlers exchanged
HandlerForExchanged(agent) ==
    IF agent = FEEDBACK_ANALYZER THEN KITCHEN_ROUTER
    ELSE IF agent = KITCHEN_ROUTER THEN FEEDBACK_ANALYZER
    ELSE IF agent = MEAL_RECOMMENDER THEN agent
    ELSE PREFERENCE_LEARNER

\* process_message, lines 286-301: the if/elif chain, with the Preference Learner
\* in its first branch and in its else
HandlerFor(agent) ==
    IF agent = PREFERENCE_LEARNER THEN PREFERENCE_LEARNER
    ELSE IF agent = MEAL_RECOMMENDER THEN MEAL_RECOMMENDER
    ELSE IF agent = FEEDBACK_ANALYZER THEN FEEDBACK_ANALYZER
    ELSE IF agent = KITCHEN_ROUTER THEN KITCHEN_ROUTER
    ELSE PREFERENCE_LEARNER

\* process_message, lines 286-301, after the router returned: the dispatch and the
\* handler up to its first suspension.  conversations[conversation_id] is evaluated
\* for the Preference Learner and for the Meal Recommender only.
Dispatch(k, frame, retrieval) ==
    LET cid == frame.conversation_id
        handler == HandlerFor(frame.agent)
    IN
    CASE handler = MEAL_RECOMMENDER ->
            LET f == [frame EXCEPT !.handler = MEAL_RECOMMENDER,
                                   !.invoked = Append(@, MEAL_RECOMMENDER)] IN
            IF cid \notin DOMAIN conversations
            THEN Raise(k, frame, "KeyError", user_contexts)
            ELSE IF retrieval.kind # "ok"
                 THEN Raise(k, [f EXCEPT !.handler_outcome = retrieval.kind,
                                         !.queries = IF retrieval.kind = "QueryError" THEN 1 ELSE 0],
                            "HandlerError", user_contexts)
                 ELSE IF MealsFound(retrieval.meals)
                      THEN /\ calls' = [calls EXCEPT ![k] =
                                  [f EXCEPT !.pc = "handler_probe", !.queries = 1,
                                            !.relevant_meals = retrieval.meals]]
                           /\ UNCHANGED <<conversations, user_contexts, turn_log, disturbed>>
                      ELSE Finish(k, [f EXCEPT !.queries = 1, !.handler_outcome = "empty"],
                                  MealEmptyResult, user_contexts)
      [] handler \in {FEEDBACK_ANALYZER, KITCHEN_ROUTER} ->
            /\ calls' = [calls EXCEPT ![k] =
                   [frame EXCEPT !.pc = "handler_probe", !.handler = handler,
                                 !.invoked = Append(@, handler)]]
            /\ UNCHANGED <<conversations, user_contexts, turn_log, disturbed>>
      [] OTHER ->
            IF cid \notin DOMAIN conversations
            THEN Raise(k, frame, "KeyError", user_contexts)
            ELSE /\ calls' = [calls EXCEPT ![k] =
                        [frame EXCEPT !.pc = "handler_probe", !.handler = PREFERENCE_LEARNER,
                                      !.invoked = Append(@, PREFERENCE_LEARNER)]]
                 /\ UNCHANGED <<conversations, user_contexts, turn_log, disturbed>>

\* the router returned (or raised): go on to the dispatch
Routed(k, frame, outcome, response, retrieval) ==
    LET r == RouteOutcome(outcome, response)
        f == [frame EXCEPT !.route_outcome = outcome, !.agent = r.agent]
    IN  IF r.raised THEN Raise(k, f, "RouterError", user_contexts)
        ELSE Dispatch(k, f, retrieval)

\* the handler's completion call ended with outcome (and response when "ok")
HandlerCompleted(k, frame, outcome, narrative, structured_text) ==
    CASE frame.handler = PREFERENCE_LEARNER ->
            LET out == handle_preference_learning(outcome, narrative, frame.message)
                prefs == DictGet(out.result, "extracted_preferences", EmptyDict)
            IN  Settle(k, frame, out,
                       IF ~out.raised /\ prefs # EmptyDict
                       THEN UpdateUserContext(user_contexts, frame.user_id, prefs)
                       ELSE user_contexts)
      [] frame.handler = MEAL_RECOMMENDER ->
            Settle(k, frame,
                   handle_meal_recommendation(outcome, narrative, frame.message, frame.relevant_meals),
                   user_contexts)
      [] frame.handler = FEEDBACK_ANALYZER ->
            LET st == StructuredOutcome(outcome, structured_text) IN
            Settle(k, [frame EXCEPT !.structured = st,
                                    !.raw_structured = IF outcome = "ok" THEN structured_text ELSE <<>>],
                   handle_feedback_analysis(st), user_contexts)
      [] frame.handler = KITCHEN_ROUTER ->
            LET st == StructuredOutcome(outcome, structured_text) IN
            Settle(k, [frame EXCEPT !.structured = st,
                                    !.raw_structured = IF outcome = "ok" THEN structured_text ELSE <<>>],
                   handle_kitchen_routing(st), user_contexts)

-----------------------------------------------------------------------------
(* Actions of the pipeline *)

\* process_message, lines 271-283, and route_conversation up to the health probe
Start(k, env) ==
    \E message \in Messages, user_id \in Users,
       given \in {NoneId, ""} \cup env.own_ids \cup DOMAIN conversations :
        LET cid == IF given \in {NoneId, ""} THEN GenConvId(user_id, clock) ELSE given IN
        /\ LoopFree
        /\ calls[k].pc = "idle"
        /\ k > 1 => calls[k - 1].pc # "idle"
        /\ conversations' = AppendUser(conversations, cid, message)
        /\ calls' = [calls EXCEPT ![k] =
               [IdleFrame EXCEPT !.pc = "route_probe", !.message = message,
                                 !.user_id = user_id, !.conversation_id = cid,
                                 !.generated = (given \in {NoneId, ""})]]
        /\ disturbed' = IF InFlightOn(cid, k) THEN disturbed \cup {cid} ELSE disturbed
        /\ UNCHANGED <<user_contexts, meal_collection, chroma_store, clock, turn_log>>

\* the router's generate_completion, lines 40-41 of llm_service: the health probe
RouteProbe(k, env) ==
    \E answer \in env.probe,
       retrieval \in RetrievalOutcomes(meal_collection, chroma_store.ids, TopK, env.shifts) :
        LET f == [calls[k] EXCEPT !.route_probes = @ + 1, !.route_probe_answer = answer] IN
        /\ LoopFree
        /\ calls[k].pc = "route_probe"
        /\ IF check_ollama_health(answer)
           THEN /\ calls' = [calls EXCEPT ![k] = [f EXCEPT !.pc = "route_post"]]
                /\ UNCHANGED <<conversations, user_contexts, turn_log, disturbed>>
           ELSE Routed(k, f, "unhealthy", <<>>, retrieval)
        /\ UNCHANGED <<meal_collection, chroma_store, clock>>

\* the router's generate_completion, lines 58-65 of llm_service: the chat request
RoutePost(k, env) ==
    \E outcome \in env.post, reply \in RouterReplies,
       retrieval \in RetrievalOutcomes(meal_collection, chroma_store.ids, TopK, env.shifts) :
        /\ LoopFree
        /\ calls[k].pc = "route_post"
        /\ Routed(k, [calls[k] EXCEPT !.route_posts = @ + 1], outcome, Chars(reply), retrieval)
        /\ UNCHANGED <<meal_collection, chroma_store, clock>>

\* a plausible slip: the health probe tried once more after a failure
HandlerProbeRetrying(k, env) ==
    \E answer \in env.probe :
        LET f == [calls[k] EXCEPT !.handler_probes = @ + 1, !.handler_probe_answer = answer] IN
        /\ LoopFree
        /\ calls[k].pc = "handler_probe"
        /\ IF check_ollama_health(answer)
           THEN /\ calls' = [calls EXCEPT ![k] = [f EXCEPT !.pc = "handler_post"]]
                /\ UNCHANGED <<conversations, user_contexts, turn_log, disturbed>>
           ELSE IF calls[k].handler_probes = 0
                THEN /\ calls' = [calls EXCEPT ![k] = f]
                     /\ UNCHANGED <<conversations, user_contexts, turn_log, disturbed>>
                ELSE HandlerCompleted(k, f, "unhealthy", "", <<>>)
        /\ UNCHANGED <<meal_collection, chroma_store, clock>>

\* the handler's generate_completion: the health probe
HandlerProbe(k, env) ==
    \E answer \in env.probe :
        LET f == [calls[k] EXCEPT !.handler_probes = @ + 1, !.handler_probe_answer = answer] IN
        /\ LoopFree
        /\ calls[k].pc = "handler_probe"
        /\ IF check_ollama_health(answer)
           THEN /\ calls' = [calls EXCEPT ![k] = [f EXCEPT !.pc = "handler_post"]]
                /\ UNCHANGED <<conversations, user_contexts, turn_log, disturbed>>
           ELSE HandlerCompleted(k, f, "unhealthy", "", <<>>)
        /\ UNCHANGED <<meal_collection, chroma_store, clock>>

\* the handler's generate_completion: the chat request
HandlerPost(k, env) ==
    \E outcome \in env.post, narrative \in NarrativeReplies,
       structured_text \in env.structured :
        /\ LoopFree
        /\ calls[k].pc = "handler_post"
        /\ HandlerCompleted(k, [calls[k] EXCEPT !.handler_posts = @ + 1],
                            outcome, narrative, structured_text)
        /\ UNCHANGED <<meal_collection, chroma_store, clock>>

\* routers/chat.py, lines 50-69: the endpoint takes the result or the exception
Respond(k) ==
    /\ calls[k].pc \in {"returned", "raised"}
    /\ calls' = [calls EXCEPT ![k] = [IdleFrame EXCEPT !.pc = "closed"]]
    /\ UNCHANGED <<conversations, user_contexts, meal_collection, chroma_store,
                   clock, turn_log, disturbed>>

\* routers/chat.py, delete_conversation
DeleteConversation(cid) ==
    /\ LoopFree
    /\ cid \in DOMAIN conversations
    /\ conversations' = DictDel(conversations, cid)
    /\ turn_log' = DictDel(turn_log, cid)
    /\ disturbed' = IF InFlightOn(cid, 0) THEN disturbed \cup {cid} ELSE disturbed \ {cid}
    /\ UNCHANGED <<user_contexts, meal_collection, chroma_store, clock, calls>>

\* a second passes
Tick ==
    /\ clock < MaxClock
    /\ clock' = clock + 1
    /\ UNCHANGED <<conversations, user_contexts, meal_collection, chroma_store,
                   calls, turn_log, disturbed>>

\* initialize_rag_engine with _load_meal_data: an existing collection is taken as
\* it is; a new one is created, bound to meal_collection and then loaded, and a
\* failure while loading leaves it created and empty
InitializeRag ==
    \E load_ok \in BOOLEAN :
        /\ init_log.calls < MaxInitCalls
        /\ meal_collection' = TRUE
        /\ chroma_store' = InitializedStore(chroma_store, load_ok)
        /\ init_log' =
              [calls |-> init_log.calls + 1,
               returned |-> init_log.returned
                            + (IF InitializeReturns(chroma_store, load_ok) THEN 1 ELSE 0),
               added |-> init_log.added
                         + (IF InitializedStore(chroma_store, load_ok).ids # chroma_store.ids
                            THEN 1 ELSE 0),
               last |-> IF InitializeReturns(chroma_store, load_ok) THEN "returned" ELSE "raised"]
        /\ UNCHANGED <<conversations, user_contexts, clock, calls, turn_log, disturbed>>

\* the tables of agent_service and the frames before any request
NoTurns ==
    /\ conversations = EmptyDict
    /\ user_contexts = EmptyDict
    /\ clock = 0
    /\ calls = [k \in Calls |-> IdleFrame]
    /\ turn_log = EmptyDict
    /\ disturbed = {}

RouterIdle ==
    /\ raw_reply = <<>>
    /\ llm_outcome = "pending"
    /\ decision = [raised |-> FALSE, agent |-> "none"]

\* What the surroundings may do in a specification: the outcomes of a chat
\* request, the structured replies, the ids a client makes up, the rankings.
\* The many-turn pipeline keeps one of each kind: a request that succeeds (a failure
\* comes from the health probe), a dict, a value that is no dict, a text without JSON
PipelineEnv ==
    [post |-> {"ok"},
     probe |-> {"200", "503"},
     structured |-> { <<DocNegative>>, <<DocArray>>, <<Prose>> },
     own_ids |-> {},
     shifts |-> {0}]

TurnEnv ==
    [post |-> PostOutcomes,
     probe |-> ProbeAnswers,
     structured |-> StructuredReplies,
     own_ids |-> ExplicitConvIds,
     shifts |-> 0..(Len(Catalog) - 1)]

-----------------------------------------------------------------------------
(* The router on its own: route_conversation on one raw reply *)

Fragments ==
    { <<"p","r","e","f","e","r","e","n","c","e">>,
      <<"M","e","a","l">>,
      <<"R","E","C","O","M","M","E","N","D">>,
      <<"f","e","e","d","b","a","c","k">>,
      <<"K","i","t","c","h","e","n">>,
      <<"U","N","K","N","O","W","N">>,
      <<"m","e">>,
      <<"A","L">>,
      <<" ">> }

RECURSIVE Texts(_)
Texts(n) ==
    IF n = 0 THEN {<<>>}
    ELSE Texts(n - 1) \cup {t \o f : t \in Texts(n - 1), f \in Fragments}

RouterInit ==
    /\ raw_reply \in Texts(MaxReplyLen)
    /\ llm_outcome = "pending"
    /\ decision = [raised |-> FALSE, agent |-> "none"]

\* generate_completion returned the reply
RouterReplyArrives ==
    /\ llm_outcome = "pending"
    /\ llm_outcome' = "ok"
    /\ decision' = RouteOutcome("ok", raw_reply)
    /\ UNCHANGED raw_reply

\* generate_completion raised
RouterCompletionFails ==
    \E kind \in {"unhealthy", "status", "timeout"} :
        /\ llm_outcome = "pending"
        /\ llm_outcome' = kind
        /\ decision' = RouteOutcome(kind, raw_reply)
        /\ UNCHANGED raw_reply

-----------------------------------------------------------------------------
(* The routing prompt on its own: route_conversation, lines 43-49, and
   get_routing_prompt *)

\* list[-n:]: the last n elements, all of them when there are fewer
LastN(list, n) == IF Len(list) <= n THEN list ELSE SubSeq(list, Len(list) - n + 1, Len(list))

\* text[:n]
FirstChars(text, n) == IF Len(text) <= n THEN text ELSE SubSeq(text, 1, n)

\* route_conversation, lines 43-47: the history handed to get_routing_prompt
RoutingHistory(conversation_history) == LastN(conversation_history, HistoryWindow)

\* get_routing_prompt, lines 145-146: one line of history_text
PromptLine(msg) ==
    [role |-> msg.role, shown |-> FirstChars(msg.content, ContentShown), suffix |-> "..."]

\* get_routing_prompt, lines 143-155: the lines of history_text and the message
get_routing_prompt(message, conversation_history) ==
    [history_text |-> IF conversation_history = <<>> THEN <<"No previous conversation">>
                      ELSE [i \in 1..Len(LastN(conversation_history, PromptWindow)) |->
                               PromptLine(LastN(conversation_history, PromptWindow)[i])],
     message |-> message]

\* the content of the i-th message of a history: its number, written out at length
\* for the long one
ContentOf(i, long) ==
    IF long THEN [j \in 1..LongContent |-> ToString(i)] ELSE <<ToString(i)>>

\* the histories of the unit: n messages, user and assistant in turn, one of them
\* (or none) longer than what a line shows
HistoryOf(n, long_at) ==
    [i \in 1..n |-> [role |-> IF i % 2 = 1 THEN "user" ELSE "assistant",
                     content |-> ContentOf(i, i = long_at)]]

Histories == {HistoryOf(n, long_at) : n \in 0..MaxHistory, long_at \in 0..MaxHistory}

NoPrompt == [history |-> <<>>, message |-> "", handed |-> <<>>,
             prompt |-> [history_text |-> <<>>, message |-> ""], built |-> FALSE]

PromptIdle == routing_prompt = NoPrompt

\* route_conversation up to its call of generate_completion
BuildRoutingPrompt ==
    \E conversation_history \in Histories, message \in Messages :
        /\ routing_prompt' =
              [history |-> conversation_history,
               message |-> message,
               handed |-> RoutingHistory(conversation_history),
               prompt |-> get_routing_prompt(message, RoutingHistory(conversation_history)),
               built |-> TRUE]
        /\ UNCHANGED <<mainVars, routerVars, init_log, rag_call, llm_call, extraction>>

-----------------------------------------------------------------------------
(* Preference extraction on its own: handle_preference_learning, lines 102-105,
   for one user on messages made of a few words *)

\* the words a message of the unit is made of
Vocabulary == {"calorie", "Calories", "150", "200", "300", "4999", "5000"}

WordChars(w) ==
    CASE w = "calorie" -> <<"c","a","l","o","r","i","e">>
      [] w = "Calories" -> <<"C","a","l","o","r","i","e","s">>
      [] w = "150" -> <<"1","5","0">>
      [] w = "200" -> <<"2","0","0">>
      [] w = "300" -> <<"3","0","0">>
      [] w = "4999" -> <<"4","9","9","9">>
      [] w = "5000" -> <<"5","0","0","0">>

\* the message: its words with one space between
RECURSIVE JoinWords(_)
JoinWords(words) ==
    IF words = <<>> THEN <<>>
    ELSE IF Len(words) = 1 THEN WordChars(words[1])
    ELSE WordChars(words[1]) \o <<" ">> \o JoinWords(Tail(words))

RECURSIVE WordLists(_)
WordLists(n) ==
    IF n = 0 THEN {<<>>}
    ELSE WordLists(n - 1) \cup {Append(l, w) : l \in WordLists(n - 1), w \in Vocabulary}

\* source: history, the message whose extraction wrote the stored calorie_target
NoExtraction == [turns |-> 0, words |-> <<>>, preferences |-> EmptyDict,
                 before |-> EmptyDict, context |-> EmptyDict, source |-> <<>>]

ExtractionIdle == extraction = NoExtraction

\* a Preference Learner turn whose completion call returned: the extraction, and the
\* merge into the user's context when anything was extracted
LearnPreferences ==
    \E words \in WordLists(MaxWords) \ {<<>>} :
        LET extracted_prefs == ExtractPreferencesOf(JoinWords(words)) IN
        /\ extraction.turns < MaxExtractTurns
        /\ extraction' =
              [turns |-> extraction.turns + 1,
               words |-> words,
               preferences |-> extracted_prefs,
               before |-> extraction.context,
               context |-> IF extracted_prefs # EmptyDict
                           THEN MergePreferences(extraction.context, extracted_prefs)
                           ELSE extraction.context,
               source |-> IF HasKey(extracted_prefs, "calorie_target") THEN words
                          ELSE extraction.source]
        /\ UNCHANGED <<mainVars, routerVars, init_log, rag_call, llm_call, routing_prompt>>

-----------------------------------------------------------------------------
(* rag_service on its own: search_meals, get_contextual_meals, get_meal_by_id *)

\* the order in which the dietary tags are written out
TagOrder == <<"vegetarian", "vegan", "keto", "gluten_free", "dairy_free", "halal">>

RECURSIVE TagTimes(_, _)
TagTimes(tag, n) == IF n <= 1 THEN tag ELSE tag \o ", " \o TagTimes(tag, n - 1)

\* ', '.join(list) of a list of dietary tags
RECURSIVE JoinTagsFrom(_, _, _)
JoinTagsFrom(list, i, acc) ==
    IF i > Len(TagOrder) THEN acc
    ELSE IF BagIn(TagOrder[i], list)
         THEN JoinTagsFrom(list, i + 1,
                  (IF acc = "" THEN "" ELSE acc \o ", ")
                  \o TagTimes(TagOrder[i], CopiesIn(TagOrder[i], list)))
         ELSE JoinTagsFrom(list, i + 1, acc)

JoinTags(list) == JoinTagsFrom(list, 1, "")

\* _preferences_to_text, for the keys agent_service stores
PreferencesToText(preferences) ==
    LET diet == IF HasKey(preferences, "dietary_restrictions")
                THEN <<"dietary needs: " \o JoinTags(preferences["dietary_restrictions"])>>
                ELSE <<>>
        cal == IF HasKey(preferences, "calorie_target")
               THEN <<"target calories: " \o ToString(preferences["calorie_target"])>>
               ELSE <<>>
        parts == diet \o cal
    IN  IF parts = <<>> THEN "no specific preferences"
        ELSE IF Len(parts) = 1 THEN parts[1]
        ELSE parts[1] \o "; " \o parts[2]

\* the preferences argument left out
NoPreferences == PyNone

\* a plausible slip: the query augmented whatever the preferences
EnhancedQueryAlways(user_query, user_preferences) ==
    user_query \o ". User preferences: "
    \o PreferencesToText(IF user_preferences = NoPreferences THEN EmptyDict
                         ELSE user_preferences)

\* get_contextual_meals, lines 208-212: None and {} are both false in the if
EnhancedQuery(user_query, user_preferences) ==
    IF user_preferences \notin {NoPreferences, EmptyDict}
    THEN user_query \o ". User preferences: " \o PreferencesToText(user_preferences)
    ELSE user_query

\* no category filter
NoCategory == "None"

\* The nearest entries of a query are fixed by the text of the query; the model
\* lets the length of the text choose the order
RankShift(query) == Len(query)

\* search_meals, lines 141-168: the query of the collection with the category
\* filter, and the list built from what it gave
QueryCollection(collection, store, query, category, max_results) ==
    LET at == SelectSeq([i \in 1..Len(store.ids) |-> i],
                        LAMBDA i : category = NoCategory
                                   \/ store.metadatas[i].category = category)
        ranked == Rotate([j \in 1..Len(at) |-> store.ids[at[j]]], RankShift(query))
    IN  [kind |-> "ok",
         meals |-> [j \in 1..Len(FirstN(ranked, max_results)) |-> [id |-> ranked[j]]]]

\* search_meals: the RuntimeError before initialization, else the max_results
\* nearest entries that pass the category filter, nearest first
search_meals(collection, store, query, category, max_results) ==
    IF ~collection THEN [kind |-> "NotInitialized", meals |-> <<>>]
    ELSE QueryCollection(collection, store, query, category, max_results)

\* get_contextual_meals: what it returns or raises, with the query it searched
get_contextual_meals(collection, store, user_query, user_preferences, top_k) ==
    LET enhanced_query == EnhancedQuery(user_query, user_preferences)
        found == search_meals(collection, store, enhanced_query, NoCategory, top_k)
    IN  [kind |-> found.kind,
         meals |-> found.meals,
         searched |-> enhanced_query,
         context |-> IF found.kind = "ok" THEN ContextExplanation(found.meals, user_query)
                     ELSE ""]

\* the value get_meal_by_id gives for a miss
Absent == PyNone

\* a plausible slip: the entry built from the id asked for and the first metadata
get_meal_by_id_first(collection, store, meal_id, get_ok) ==
    IF ~collection THEN [kind |-> "NotInitialized", entry |-> Absent]
    ELSE IF get_ok /\ store.ids # <<>>
         THEN [kind |-> "ok", entry |-> [id |-> meal_id, metadata |-> store.metadatas[1]]]
         ELSE [kind |-> "ok", entry |-> Absent]

\* get_meal_by_id: get_ok = FALSE is an exception of the collection's get, swallowed
get_meal_by_id(collection, store, meal_id, get_ok) ==
    IF ~collection THEN [kind |-> "NotInitialized", entry |-> Absent]
    ELSE LET at == {i \in 1..Len(store.ids) : store.ids[i] = meal_id} IN
         IF get_ok /\ at # {}
         THEN LET i == CHOOSE x \in at : \A y \in at : x <= y IN
              [kind |-> "ok", entry |-> [id |-> store.ids[i], metadata |-> store.metadatas[i]]]
         ELSE [kind |-> "ok", entry |-> Absent]

\* the inputs of the retrieval unit
Queries == {"bowl", "lunch", "dinner for two"}
PreferenceInputs ==
    {NoPreferences, EmptyDict,
     [dietary_restrictions |-> SetToBag({"vegan"})],
     [dietary_restrictions |-> SetToBag({"vegan", "keto"}), calorie_target |-> 500],
     [favorite_color |-> "green"]}
ResultCounts == {1, 3, TopK}
Categories == {NoCategory, "lunch", "snack"}
MealIds == Range(Catalog) \cup {"meal_999"}

NoRagCall ==
    [op |-> "none", query |-> "", preferences |-> EmptyDict, n |-> 0, category |-> "",
     meal_id |-> "", completed |-> 0, collection |-> FALSE, store |-> NoCollection,
     kind |-> "none", meals |-> <<>>, searched |-> "", context |-> "", entry |-> Absent,
     get_ok |-> TRUE]

\* no call of rag_service yet
NoInitialize == [calls |-> 0, returned |-> 0, added |-> 0, last |-> "none"]

RagIdle ==
    /\ init_log = NoInitialize
    /\ rag_call = NoRagCall

\* a caller of search_meals
SearchMeals ==
    \E query \in Queries, category \in Categories, max_results \in ResultCounts :
        LET out == search_meals(meal_collection, chroma_store, query, category, max_results) IN
        /\ rag_call' = [NoRagCall EXCEPT !.op = "search", !.query = query, !.n = max_results,
                                         !.category = category,
                                         !.completed = init_log.returned,
                                         !.collection = meal_collection,
                                         !.store = chroma_store,
                                         !.kind = out.kind, !.meals = out.meals,
                                         !.searched = query]
        /\ UNCHANGED <<mainVars, routerVars, init_log, llm_call, routing_prompt, extraction>>

\* a caller of get_contextual_meals
ContextualSearch ==
    \E query \in Queries, preferences \in PreferenceInputs, top_k \in ResultCounts :
        LET out == get_contextual_meals(meal_collection, chroma_store, query, preferences, top_k) IN
        /\ rag_call' = [NoRagCall EXCEPT !.op = "contextual", !.query = query, !.n = top_k,
                                         !.preferences = preferences,
                                         !.completed = init_log.returned,
                                         !.collection = meal_collection,
                                         !.store = chroma_store,
                                         !.kind = out.kind, !.meals = out.meals,
                                         !.searched = out.searched, !.context = out.context]
        /\ UNCHANGED <<mainVars, routerVars, init_log, llm_call, routing_prompt, extraction>>

\* a caller of get_meal_by_id
GetMealById ==
    \E meal_id \in MealIds, get_ok \in BOOLEAN :
        LET out == get_meal_by_id(meal_collection, chroma_store, meal_id, get_ok) IN
        /\ rag_call' = [NoRagCall EXCEPT !.op = "get", !.meal_id = meal_id,
                                         !.get_ok = get_ok,
                                         !.completed = init_log.returned,
                                         !.collection = meal_collection,
                                         !.store = chroma_store,
                                         !.kind = out.kind, !.entry = out.entry]
        /\ UNCHANGED <<mainVars, routerVars, init_log, llm_call, routing_prompt, extraction>>

\* the collections a process may find persisted when it starts: none, one whose
\* load failed, one built from a shorter catalog, one built from the catalog
PersistedStores ==
    {NoCollection, CreatedCollection,
     CollectionAdd(CreatedCollection, FirstN(Meals, 2)),
     CollectionAdd(CreatedCollection, Meals)}

-----------------------------------------------------------------------------
(* Specifications *)

\* Spec: several turns, one after another or interleaved, once the application has
\* started (main.py, lifespan: initialize_rag_engine has built the index)
Init ==
    /\ NoTurns
    /\ meal_collection = TRUE
    /\ chroma_store = CollectionAdd(CreatedCollection, Meals)
    /\ RouterIdle
    /\ init_log = [calls |-> 1, returned |-> 1, added |-> 1, last |-> "returned"]
    /\ rag_call = NoRagCall
    /\ ClientIdle
    /\ PromptIdle
    /\ ExtractionIdle

Next ==
    \/ (\E k \in Calls : Start(k, PipelineEnv)) /\ UNCHANGED unitVars
    \/ (\E k \in Calls : RouteProbe(k, PipelineEnv)) /\ UNCHANGED unitVars
    \/ (\E k \in Calls : RoutePost(k, PipelineEnv)) /\ UNCHANGED unitVars
    \/ (\E k \in Calls : HandlerProbe(k, PipelineEnv)) /\ UNCHANGED unitVars
    \/ (\E k \in Calls : HandlerPost(k, PipelineEnv)) /\ UNCHANGED unitVars
    \/ (\E k \in Calls : Respond(k)) /\ UNCHANGED unitVars
    \/ (\E cid \in DOMAIN conversations : DeleteConversation(cid)) /\ UNCHANGED unitVars

Spec == Init /\ [][Next]_vars

\* SpecTurn: one turn from the state after the modules are loaded, with every reply
\* of the model, the index built or not, and the conversation deleted meanwhile
InitTurn ==
    /\ NoTurns
    /\ meal_collection = FALSE
    /\ chroma_store \in PersistedStores
    /\ RouterIdle
    /\ RagIdle
    /\ ClientIdle
    /\ PromptIdle
    /\ ExtractionIdle

NextTurn ==
    \/ Start(1, TurnEnv) /\ UNCHANGED unitVars
    \/ RouteProbe(1, TurnEnv) /\ UNCHANGED unitVars
    \/ RoutePost(1, TurnEnv) /\ UNCHANGED unitVars
    \/ HandlerProbe(1, TurnEnv) /\ UNCHANGED unitVars
    \/ HandlerPost(1, TurnEnv) /\ UNCHANGED unitVars
    \/ Respond(1) /\ UNCHANGED unitVars
    \/ (\E cid \in DOMAIN conversations : DeleteConversation(cid)) /\ UNCHANGED unitVars
    \/ Tick /\ UNCHANGED unitVars
    \/ (~meal_collection /\ InitializeRag) /\ UNCHANGED <<routerVars, rag_call, llm_call, routing_prompt, extraction>>

SpecTurn == InitTurn /\ [][NextTurn]_vars

InitRouter ==
    /\ RouterInit
    /\ NoTurns
    /\ meal_collection = FALSE
    /\ chroma_store = NoCollection
    /\ RagIdle
    /\ ClientIdle
    /\ PromptIdle
    /\ ExtractionIdle

NextRouter ==
    \/ RouterReplyArrives /\ UNCHANGED <<mainVars, init_log, rag_call, llm_call, routing_prompt, extraction>>
    \/ RouterCompletionFails /\ UNCHANGED <<mainVars, init_log, rag_call, llm_call, routing_prompt, extraction>>

SpecRouter == InitRouter /\ [][NextRouter]_vars

\* SpecRag: the callers of rag_service, before and after initialize_rag_engine, on
\* every collection the process may find
InitRag ==
    /\ NoTurns
    /\ meal_collection = FALSE
    /\ chroma_store \in PersistedStores
    /\ RouterIdle
    /\ RagIdle
    /\ ClientIdle
    /\ PromptIdle
    /\ ExtractionIdle

NextRag ==
    \/ InitializeRag /\ UNCHANGED <<routerVars, rag_call, llm_call, routing_prompt, extraction>>
    \/ SearchMeals
    \/ ContextualSearch
    \/ GetMealById

SpecRag == InitRag /\ [][NextRag]_vars

\* SpecClient: callers of llm_service, one call after another
InitClient ==
    /\ NoTurns
    /\ meal_collection = FALSE
    /\ chroma_store = NoCollection
    /\ RouterIdle
    /\ RagIdle
    /\ ClientIdle
    /\ PromptIdle
    /\ ExtractionIdle

NextClient ==
    \/ ClientStart
    \/ ClientProbed
    \/ ClientAnswered

SpecClient == InitClient /\ [][NextClient]_vars

\* SpecPrompt: route_conversation's prompt on histories of every length
InitPrompt ==
    /\ NoTurns
    /\ meal_collection = FALSE
    /\ chroma_store = NoCollection
    /\ RouterIdle
    /\ RagIdle
    /\ ClientIdle
    /\ PromptIdle
    /\ ExtractionIdle

NextPrompt == BuildRoutingPrompt

SpecPrompt == InitPrompt /\ [][NextPrompt]_vars

\* SpecExtract: one user's Preference Learner turns, on every message of a few words
InitExtract ==
    /\ NoTurns
    /\ meal_collection = FALSE
    /\ chroma_store = NoCollection
    /\ RouterIdle
    /\ RagIdle
    /\ ClientIdle
    /\ PromptIdle
    /\ ExtractionIdle

NextExtract == LearnPreferences

SpecExtract == InitExtract /\ [][NextExtract]_vars

\* SpecPair: process_message calls and nothing else, so that calls on one conversation
\* interleave at their suspension points with no deletion between them
InitPair == Init

NextPair ==
    \/ (\E k \in Calls : Start(k, PipelineEnv)) /\ UNCHANGED unitVars
    \/ (\E k \in Calls : RouteProbe(k, PipelineEnv)) /\ UNCHANGED unitVars
    \/ (\E k \in Calls : RoutePost(k, PipelineEnv)) /\ UNCHANGED unitVars
    \/ (\E k \in Calls : HandlerProbe(k, PipelineEnv)) /\ UNCHANGED unitVars
    \/ (\E k \in Calls : HandlerPost(k, PipelineEnv)) /\ UNCHANGED unitVars
    \/ (\E k \in Calls : Respond(k)) /\ UNCHANGED unitVars

SpecPair == InitPair /\ [][NextPair]_vars

-----------------------------------------------------------------------------
(* Claims *)

CompletionFailures == {"unhealthy", "status", "timeout"}
ExtractionFailures == CompletionFailures \cup {"malformed"}
RetrievalFailures == {"NotInitialized", "QueryError"}

\* the history that N returned turns give: user, assistant, user, assistant, ...
Alternating(turns) ==
    [i \in 1..(2 * Len(turns)) |->
        IF i % 2 = 1 THEN [role |-> "user", content |-> turns[(i + 1) \div 2][1]]
        ELSE [role |-> "assistant", content |-> turns[i \div 2][2]]]

\* C1: on a conversation whose turns ran one after another, all returned, with no
\* deletion, the history has length 2N and is user k, reply k for k = 1..N in the
\* order the turns were processed
C1_TurnsAlternate ==
    \A cid \in DOMAIN conversations :
        (cid \notin disturbed /\ ~InFlightOn(cid, 0)) =>
            /\ Len(conversations[cid]) = 2 * Len(DictGet(turn_log, cid, <<>>))
            /\ conversations[cid] = Alternating(DictGet(turn_log, cid, <<>>))

\* two turns with different user messages returned on one conversation
C1_Witness ==
    \E cid \in DOMAIN conversations :
        /\ cid \notin disturbed
        /\ ~InFlightOn(cid, 0)
        /\ Len(DictGet(turn_log, cid, <<>>)) = 2
        /\ turn_log[cid][1][1] # turn_log[cid][2][1]
        /\ turn_log[cid][1][2] # turn_log[cid][2][2]

\* C2: when the router's completion call fails (probe, error status, timeout),
\* route_conversation does not raise and its decision is PREFERENCE_LEARNER
C2_RouterFailureDefaults ==
    \A k \in Calls :
        calls[k].route_outcome \in CompletionFailures =>
            /\ calls[k].agent = "PREFERENCE_LEARNER"
            /\ calls[k].error # "RouterError"

\* the router's request timed out and the turn went on into the Preference Learner
C2_Witness ==
    \E k \in Calls :
        /\ calls[k].route_outcome = "timeout"
        /\ calls[k].handler = "PREFERENCE_LEARNER"
        /\ calls[k].pc = "returned"

\* a token occurs in a text, whatever the case of the letters of the text
OccursIgnoringCase(text, token) ==
    \E i \in 1..Len(text) :
        /\ i + Len(token) - 1 <= Len(text)
        /\ \A j \in 1..Len(token) : UpperChar(text[i + j - 1]) = token[j]

\* C3: the decision is one of the four tags, fixed by the raw reply alone: the
\* first of PREFERENCE, MEAL or RECOMMEND, FEEDBACK, KITCHEN that occurs in it
\* without regard to case, and PREFERENCE_LEARNER when none occurs
C3_RouterPriority ==
    llm_outcome = "ok" =>
        /\ ~decision.raised
        /\ decision.agent \in HandlerTags
        /\ OccursIgnoringCase(raw_reply, TokPREFERENCE) => decision.agent = "PREFERENCE_LEARNER"
        /\ (~OccursIgnoringCase(raw_reply, TokPREFERENCE)
            /\ (OccursIgnoringCase(raw_reply, TokMEAL) \/ OccursIgnoringCase(raw_reply, TokRECOMMEND)))
           => decision.agent = "MEAL_RECOMMENDER"
        /\ (~OccursIgnoringCase(raw_reply, TokPREFERENCE)
            /\ ~OccursIgnoringCase(raw_reply, TokMEAL)
            /\ ~OccursIgnoringCase(raw_reply, TokRECOMMEND)
            /\ OccursIgnoringCase(raw_reply, TokFEEDBACK))
           => decision.agent = "FEEDBACK_ANALYZER"
        /\ (~OccursIgnoringCase(raw_reply, TokPREFERENCE)
            /\ ~OccursIgnoringCase(raw_reply, TokMEAL)
            /\ ~OccursIgnoringCase(raw_reply, TokRECOMMEND)
            /\ ~OccursIgnoringCase(raw_reply, TokFEEDBACK)
            /\ OccursIgnoringCase(raw_reply, TokKITCHEN))
           => decision.agent = "KITCHEN_ROUTER"
        /\ (\A token \in {TokPREFERENCE, TokMEAL, TokRECOMMEND, TokFEEDBACK, TokKITCHEN} :
                ~OccursIgnoringCase(raw_reply, token))
           => decision.agent = "PREFERENCE_LEARNER"

\* a reply naming FEEDBACK before MEAL, the letters of MEAL in mixed case, is
\* routed to the Meal Recommender
C3_Witness ==
    /\ llm_outcome = "ok"
    /\ raw_reply = <<"f","e","e","d","b","a","c","k">> \o <<"m","e">> \o <<"A","L">>
    /\ decision.agent = "MEAL_RECOMMENDER"

\* C4: every result process_message returns has a reply message, an agent_used
\* among the four tags, a confidence among 0.5, 0.7, 0.85, 0.9, 0.95 and the
\* conversation_id of the turn
C4_ResultsComplete ==
    \A k \in Calls :
        calls[k].pc = "returned" =>
            /\ {"message", "agent_used", "confidence", "conversation_id"}
                  \subseteq DOMAIN calls[k].result
            /\ calls[k].result.agent_used \in HandlerTags
            /\ calls[k].result.confidence \in {50, 70, 85, 90, 95}
            /\ calls[k].result.conversation_id = calls[k].conversation_id

\* a result returned on the early return of the Meal Recommender
C4_Witness ==
    \E k \in Calls :
        /\ calls[k].pc = "returned"
        /\ calls[k].handler = "MEAL_RECOMMENDER"
        /\ calls[k].relevant_meals = <<>>
        /\ calls[k].result.confidence = 50
        /\ calls[k].result.conversation_id = calls[k].conversation_id

\* the confidence a handler gives when nothing failed
SuccessConfidence(handler) ==
    CASE handler = "PREFERENCE_LEARNER" -> 90
      [] handler = "MEAL_RECOMMENDER" -> 95
      [] handler = "FEEDBACK_ANALYZER" -> 90
      [] handler = "KITCHEN_ROUTER" -> 85

\* C5 as stated: in each of the four handlers a failed completion or retrieval call
\* does not leave the handler, which returns a result with its own tag and a
\* confidence below its success confidence
C5_EveryHandlerAbsorbs ==
    \A k \in Calls :
        (calls[k].handler \in HandlerTags
         /\ calls[k].handler_outcome \in ExtractionFailures \cup RetrievalFailures) =>
            /\ calls[k].error # "HandlerError"
            /\ "agent_used" \in DOMAIN calls[k].handled
            /\ calls[k].handled.agent_used = calls[k].handler
            /\ calls[k].handled.confidence < SuccessConfidence(calls[k].handler)

\* C5 amended: the Feedback Analyzer and the Kitchen Router absorb a failed call and
\* return their own tag with confidence 0.7, below their success confidence; the
\* Preference Learner and the Meal Recommender let it through and return nothing
C5_WrappingHandlersAbsorb ==
    \A k \in Calls :
        (calls[k].handler \in HandlerTags
         /\ calls[k].handler_outcome \in ExtractionFailures \cup RetrievalFailures) =>
            IF calls[k].handler \in {"FEEDBACK_ANALYZER", "KITCHEN_ROUTER"}
            THEN /\ calls[k].error # "HandlerError"
                 /\ "agent_used" \in DOMAIN calls[k].handled
                 /\ calls[k].handled.agent_used = calls[k].handler
                 /\ calls[k].handled.confidence = 70
                 /\ calls[k].handled.confidence < SuccessConfidence(calls[k].handler)
            ELSE /\ calls[k].pc = "raised"
                 /\ calls[k].error = "HandlerError"
                 /\ calls[k].handled = EmptyDict

\* the Kitchen Router absorbed an error status of the backend
C5_Witness ==
    \E k \in Calls :
        /\ calls[k].handler = "KITCHEN_ROUTER"
        /\ calls[k].handler_outcome = "status"
        /\ calls[k].pc = "returned"
        /\ calls[k].handled.confidence = 70

\* C6: a failed completion call of the Preference Learner leaves the handler and
\* process_message, and no result is returned; a failed structured extraction of
\* the Feedback Analyzer or the Kitchen Router is caught and a result is returned
C6_PreferenceLearnerPropagates ==
    \A k \in Calls :
        /\ (calls[k].handler = "PREFERENCE_LEARNER"
            /\ calls[k].handler_outcome \in CompletionFailures) =>
                /\ calls[k].pc = "raised"
                /\ calls[k].error = "HandlerError"
                /\ calls[k].handled = EmptyDict
                /\ calls[k].result = EmptyDict
        /\ (calls[k].handler \in {"FEEDBACK_ANALYZER", "KITCHEN_ROUTER"}
            /\ calls[k].handler_outcome \in ExtractionFailures) =>
                /\ calls[k].handled # EmptyDict
                /\ calls[k].error # "HandlerError"
                /\ calls[k].pc = "returned" \/ calls[k].error = "KeyError"

\* the health probe of the Preference Learner's completion call failed and the
\* turn ended with the exception
C6_Witness ==
    \E k \in Calls :
        /\ calls[k].handler = "PREFERENCE_LEARNER"
        /\ calls[k].handler_outcome = "unhealthy"
        /\ calls[k].handler_probes = 1
        /\ calls[k].pc = "raised"

\* C7: whatever makes the Feedback Analyzer's structured extraction fail, the
\* handler returns the fixed acknowledgment, its tag, confidence 0.7, no analysis
C7_FeedbackFallback ==
    \A k \in Calls :
        (calls[k].handler = "FEEDBACK_ANALYZER"
         /\ calls[k].handler_outcome \in ExtractionFailures) =>
            calls[k].handled =
                [message |-> "Thank you for your feedback! We've recorded your comments and will review them shortly.",
                 agent_used |-> "FEEDBACK_ANALYZER",
                 confidence |-> 70]

\* the model answered a fenced block that holds no JSON
C7_Witness ==
    \E k \in Calls :
        /\ calls[k].handler = "FEEDBACK_ANALYZER"
        /\ calls[k].handler_outcome = "malformed"
        /\ calls[k].handler_posts = 1
        /\ calls[k].pc = "returned"
        /\ "analysis" \notin DOMAIN calls[k].result

\* C8: whatever makes the Kitchen Router's structured extraction fail, the handler
\* returns the generic acknowledgment, its tag, confidence 0.7 and
\* requires_kitchen_action true
C8_KitchenFallbackEscalates ==
    \A k \in Calls :
        (calls[k].handler = "KITCHEN_ROUTER"
         /\ calls[k].handler_outcome \in ExtractionFailures) =>
            /\ calls[k].handled.message =
                  "I've noted your request and will make sure the kitchen team reviews it!"
            /\ calls[k].handled.agent_used = "KITCHEN_ROUTER"
            /\ calls[k].handled.confidence = 70
            /\ calls[k].handled.requires_kitchen_action = PyTrue

\* the Kitchen Router's request timed out and the turn returned the escalation
C8_Witness ==
    \E k \in Calls :
        /\ calls[k].handler = "KITCHEN_ROUTER"
        /\ calls[k].handler_outcome = "timeout"
        /\ calls[k].pc = "returned"
        /\ calls[k].result.requires_kitchen_action = PyTrue

\* requires_kitchen_action of the value the extraction returned, False when absent
ExtractedKitchenAction(value) == DictGet(value.items, "requires_kitchen_action", PyFalse)

\* C9: when the Kitchen Router's structured extraction succeeds, the reply is the
\* forwarding confirmation exactly when the extracted requires_kitchen_action is
\* true and the offer to help otherwise, the returned flag is the extracted one
\* (false when absent) and the confidence is 0.85
C9_KitchenSuccess ==
    \A k \in Calls :
        (calls[k].handler = "KITCHEN_ROUTER" /\ calls[k].structured.ok) =>
            /\ calls[k].handled.confidence = 85
            /\ calls[k].handled.message =
                  IF Truthy(ExtractedKitchenAction(calls[k].structured.value))
                  THEN KitchenForwardedReply ELSE KitchenDirectReply
            /\ calls[k].handled.requires_kitchen_action =
                  ExtractedKitchenAction(calls[k].structured.value)

\* C10: when contextual retrieval returns no meals the Meal Recommender returns the
\* fixed clarifying reply, its tag, confidence 0.5 and no recommendations, and has
\* sent neither a health probe nor a generation request
C10_EmptyRetrieval ==
    \A k \in Calls :
        (calls[k].handler = "MEAL_RECOMMENDER"
         /\ calls[k].queries = 1
         /\ calls[k].handler_outcome # "QueryError"
         /\ calls[k].relevant_meals = <<>>) =>
            /\ calls[k].handled =
                  [message |-> "I couldn't find any meals matching your criteria right now. Could you tell me more about what you're looking for?",
                   agent_used |-> "MEAL_RECOMMENDER",
                   confidence |-> 50,
                   recommendations |-> <<>>]
            /\ calls[k].handler_probes = 0
            /\ calls[k].handler_posts = 0

\* a turn of the Meal Recommender returned on an index that holds nothing
C10_Witness ==
    \E k \in Calls :
        /\ calls[k].handler = "MEAL_RECOMMENDER"
        /\ calls[k].queries = 1
        /\ calls[k].relevant_meals = <<>>
        /\ meal_collection
        /\ chroma_store.ids = <<>>
        /\ calls[k].pc = "returned"

\* C11: when contextual retrieval returned k >= 1 meals and the narrative was
\* generated, the Meal Recommender returns confidence 0.95 and, as recommendations,
\* the ids of the first min(3, k) retrieved meals in retrieval order: not empty, at
\* most 3, and only ids retrieved for this query
C11_TopThreeRecommendations ==
    \A k \in Calls :
        (calls[k].handler = "MEAL_RECOMMENDER"
         /\ calls[k].handler_outcome = "ok"
         /\ Len(calls[k].relevant_meals) >= 1) =>
            LET retrieved == calls[k].relevant_meals
                recs == calls[k].handled.recommendations
            IN  /\ calls[k].handled.confidence = 95
                /\ Len(recs) = (IF Len(retrieved) < 3 THEN Len(retrieved) ELSE 3)
                /\ Len(recs) \in 1..3
                /\ \A i \in 1..Len(recs) : recs[i] = retrieved[i].id
                /\ \A i \in 1..Len(recs) : \E j \in 1..Len(retrieved) : recs[i] = retrieved[j].id

\* five meals were retrieved, nearest first in an order that is not the file's, and
\* the turn returned the first three
C11_Witness ==
    \E k \in Calls :
        /\ calls[k].handler = "MEAL_RECOMMENDER"
        /\ calls[k].pc = "returned"
        /\ Len(calls[k].relevant_meals) = 5
        /\ calls[k].relevant_meals[1].id = "meal_003"
        /\ calls[k].result.recommendations = <<"meal_003", "meal_004", "meal_005">>

\* the dietary restrictions stored in a context, none when the key is missing
StoredRestrictions(ctx) == DictGet(ctx, "dietary_restrictions", EmptyBag)

\* C12: after a successful Preference Learner turn whose message contains "vegan"
\* in any letter case the user's dietary_restrictions holds vegan exactly once,
\* whatever was stored before; the merge keeps every stored restriction, adds the
\* extracted ones without duplicates, overwrites calorie_target, and merging the
\* same extracted preferences once more changes nothing
C12_PreferenceMerge ==
    [][\A k \in Calls :
          (calls[k].pc # "returned" /\ calls'[k].pc = "returned"
           /\ calls'[k].handler = "PREFERENCE_LEARNER") =>
              LET user == calls'[k].user_id
                  before == DictGet(user_contexts, user, EmptyDict)
                  after == DictGet(user_contexts', user, EmptyDict)
                  extracted == calls'[k].handled.extracted_preferences
                  added == IF HasKey(extracted, "dietary_restrictions")
                           THEN Range(extracted["dietary_restrictions"]) ELSE {}
              IN  /\ OccursIgnoringCase(Chars(calls'[k].message), <<"V","E","G","A","N">>)
                        => CopiesIn("vegan", StoredRestrictions(after)) = 1
                  /\ BagToSet(StoredRestrictions(after))
                        = BagToSet(StoredRestrictions(before)) \cup added
                  /\ \A tag \in BagToSet(StoredRestrictions(after)) :
                        CopiesIn(tag, StoredRestrictions(after)) = 1
                  /\ IF HasKey(extracted, "calorie_target")
                     THEN after["calorie_target"] = extracted["calorie_target"]
                     ELSE HasKey(after, "calorie_target") = HasKey(before, "calorie_target")
                          /\ (HasKey(before, "calorie_target")
                                => after["calorie_target"] = before["calorie_target"])
                  /\ MergePreferences(after, extracted) = after
      ]_vars

\* a user who had said keto and 500 calories says VEGAN and 1800 calories: keto is
\* kept, vegan is there once, the calorie target is the new one
C12_Witness ==
    \E k \in Calls :
        /\ calls[k].pc = "returned"
        /\ calls[k].handler = "PREFERENCE_LEARNER"
        /\ calls[k].message = "VEGAN 1800 calories"
        /\ HasKey(user_contexts, calls[k].user_id)
        /\ user_contexts[calls[k].user_id] =
              [dietary_restrictions |-> SetToBag({"keto", "vegan"}), calorie_target |-> 1800]

\* C13: a process_message call that returned invoked exactly one handler, the one
\* the router's decision names (the Preference Learner for a tag outside the four),
\* the returned agent_used is that handler's tag, and the conversation ends with an
\* assistant message whose content is the returned reply
C13_OneHandlerPerTurn ==
    \A k \in Calls :
        calls[k].pc = "returned" =>
            LET frame == calls[k]
                named == IF frame.agent \in {PREFERENCE_LEARNER, MEAL_RECOMMENDER,
                                             FEEDBACK_ANALYZER, KITCHEN_ROUTER}
                         THEN frame.agent ELSE PREFERENCE_LEARNER
                cid == frame.conversation_id
            IN  /\ Len(frame.invoked) = 1
                /\ frame.invoked[1] = named
                /\ frame.result.agent_used = named
                /\ cid \in DOMAIN conversations
                /\ Len(conversations[cid]) >= 2
                /\ conversations[cid][Len(conversations[cid])]
                      = [role |-> "assistant", content |-> frame.result.message]
                /\ conversations[cid][Len(conversations[cid]) - 1]
                      = [role |-> "user", content |-> frame.message]

\* the router answered with the kitchen tag and the Kitchen Router's own fallback
\* came back: still one handler, its tag, its reply at the end of the history
C13_Witness ==
    \E k \in Calls :
        /\ calls[k].pc = "returned"
        /\ calls[k].route_outcome = "ok"
        /\ calls[k].agent = KITCHEN_ROUTER
        /\ calls[k].invoked = <<KITCHEN_ROUTER>>
        /\ calls[k].handler_outcome # "ok"
        /\ calls[k].result.agent_used = KITCHEN_ROUTER
        /\ conversations[calls[k].conversation_id][Len(conversations[calls[k].conversation_id])].content
              = calls[k].result.message

\* the text between the first opener and the next fence after it (the end of the
\* text when the block is never closed)
FencedContent(raw, opener) ==
    LET start == CHOOSE i \in 1..Len(raw) :
                     raw[i] = opener /\ \A j \in 1..(i - 1) : raw[j] # opener
        closers == {j \in (start + 1)..Len(raw) : raw[j] \in {Fence, FenceJson}}
        stop == IF closers = {} THEN Len(raw) + 1
                ELSE CHOOSE j \in closers : \A c \in closers : j <= c
    IN  SubSeq(raw, start + 1, stop - 1)

\* a text is valid JSON when it is one document with nothing but whitespace around
IsOneDocument(toks) ==
    \E i \in 1..Len(toks) :
        toks[i] \in JsonDocs /\ \A j \in 1..Len(toks) : j # i => toks[j] = Newline

DocumentOf(toks) == JsonValue(toks[CHOOSE i \in 1..Len(toks) : toks[i] \in JsonDocs])

\* the strategy the chain settles on: the whole text when it is valid; otherwise the
\* json-fenced block when there is one, the generic block when there is no json
\* block, and nothing when there is no fence
ChosenText(raw) ==
    IF IsOneDocument(raw) THEN raw
    ELSE IF \E i \in 1..Len(raw) : raw[i] = FenceJson THEN FencedContent(raw, FenceJson)
    ELSE IF \E i \in 1..Len(raw) : raw[i] = Fence THEN FencedContent(raw, Fence)
    ELSE <<>>

\* C14: on the raw text of a completed structured call the chain returns the parsed
\* value of the whole text, else of the json-fenced block, else (no json block) of
\* the generic fenced block, and it raises, returning no value, when the text it
\* settled on is not valid JSON or when there is no fence at all
C14_StructuredChain ==
    \A k \in Calls :
        (calls[k].handler \in {FEEDBACK_ANALYZER, KITCHEN_ROUTER}
         /\ calls[k].handler_posts = 1
         /\ calls[k].structured.kind \in {"ok", "malformed"}) =>
            LET raw == calls[k].raw_structured
                got == calls[k].structured
            IN  IF IsOneDocument(ChosenText(raw))
                THEN got.ok /\ got.kind = "ok" /\ got.value = DocumentOf(ChosenText(raw))
                ELSE ~got.ok /\ got.kind = "malformed" /\ got.value = NoJson

\* a json-fenced block holding a valid document: the direct parse fails and the
\* fenced content is what comes back
C14_Witness ==
    \E k \in Calls :
        /\ calls[k].pc = "returned"
        /\ calls[k].handler = FEEDBACK_ANALYZER
        /\ calls[k].raw_structured = <<FenceJson, Newline, DocNegative, Newline, Fence>>
        /\ calls[k].structured.ok
        /\ calls[k].structured.value = JsonValue(DocNegative)

\* the requests that ask the backend for a generation or an embedding
WorkRequests == {"POST /api/chat", "POST /api/embeddings"}

\* C15: in every call of generate_completion, generate_streaming_completion and
\* embed_text the generation or embedding request comes second, right after the
\* probe this same call sent, and only when that probe answered 200, whatever an
\* earlier call's probe answered; when the probe answers anything else, or errors,
\* the call raises the service-unavailable RuntimeError, never the probe's own
\* error, and has sent nothing but the probe
C15_ProbeBeforeEveryRequest ==
    \A i \in 1..Len(llm_call) :
        LET call == llm_call[i] IN
        /\ call.sent[1] = GetTags
        /\ \A j \in 1..Len(call.sent) :
              call.sent[j] \in WorkRequests =>
                  /\ j = 2
                  /\ call.sent[j] = RequestOf(call.op)
                  /\ call.probe_answer = "200"
        /\ Len(call.sent) <= 2
        /\ call.probe_answer \in {"503", "exception"} =>
              /\ call.pc = "raised"
              /\ call.error = "RuntimeError"
              /\ call.sent = <<GetTags>>
        /\ call.pc \in {"post", "returned"} => call.probe_answer = "200"

\* a completion went through on a healthy probe; the embedding call after it
\* probed again, the probe errored, and no embedding request was sent
C15_Witness ==
    /\ Len(llm_call) = 2
    /\ llm_call[1].op = "generate_completion"
    /\ llm_call[1].pc = "returned"
    /\ llm_call[1].sent = <<GetTags, "POST /api/chat">>
    /\ llm_call[2].op = "embed_text"
    /\ llm_call[2].probe_answer = "exception"
    /\ llm_call[2].error = "RuntimeError"
    /\ llm_call[2].sent = <<GetTags>>

\* C16: a search_meals or get_contextual_meals call that starts while no call of
\* initialize_rag_engine has returned raises the not-initialized error and gives
\* no list
C16_FailsBeforeInitialized ==
    (rag_call.op \in {"search", "contextual"} /\ rag_call.completed = 0) =>
        /\ rag_call.kind = "NotInitialized"
        /\ rag_call.meals = <<>>

\* no id occurs twice in a list of ids
NoRepeats(ids) == \A i, j \in 1..Len(ids) : ids[i] = ids[j] => i = j

\* C17: a call of initialize_rag_engine that finds a collection leaves the index as
\* it is, so every call after the first leaves what the first left; items are
\* added only by a call that finds no collection, and then they are the catalog's
\* items once each; no id is ever in the index twice
C17_InitializeIdempotent ==
    [][init_log'.calls = init_log.calls + 1 =>
          /\ meal_collection'
          /\ chroma_store'.exists
          /\ chroma_store.exists => chroma_store' = chroma_store
          /\ init_log.calls >= 1 => chroma_store' = chroma_store
          /\ chroma_store' # chroma_store => ~chroma_store.exists
          /\ chroma_store'.ids # chroma_store.ids =>
                /\ ~chroma_store.exists
                /\ chroma_store'.ids = [i \in 1..Len(Meals) |-> Meals[i].id]
          /\ NoRepeats(chroma_store'.ids)
          /\ Len(chroma_store'.metadatas) = Len(chroma_store'.ids)
      ]_vars

\* no collection was found, the first call loaded the catalog, and the second call
\* found that collection and added nothing
C17_Witness ==
    /\ init_log.calls = 2
    /\ init_log.returned = 2
    /\ init_log.added = 1
    /\ chroma_store.ids = <<"meal_001", "meal_002", "meal_003", "meal_004", "meal_005", "meal_006">>

\* C18: get_contextual_meals called with no preferences or with an empty mapping
\* searches the query as given and gives what search_meals gives for that query
\* without a category and with max_results = top_k, the error before initialization
\* included; with a non-empty mapping the text it searches is not the query
C18_EmptyPreferencesPlainSearch ==
    rag_call.op = "contextual" =>
        LET direct == search_meals(rag_call.collection, rag_call.store, rag_call.query,
                                   NoCategory, rag_call.n)
        IN  IF rag_call.preferences \in {NoPreferences, EmptyDict}
            THEN /\ rag_call.searched = rag_call.query
                 /\ rag_call.kind = direct.kind
                 /\ rag_call.meals = direct.meals
            ELSE /\ rag_call.searched # rag_call.query
                 /\ Len(rag_call.searched) > Len(rag_call.query)

\* an empty mapping, top_k 3, on the loaded index: three meals, the query untouched
C18_Witness ==
    /\ rag_call.op = "contextual"
    /\ rag_call.preferences = EmptyDict
    /\ rag_call.n = 3
    /\ rag_call.kind = "ok"
    /\ Len(rag_call.store.ids) = 6
    /\ Len(rag_call.meals) = 3
    /\ rag_call.searched = "dinner for two"
    /\ rag_call.meals[1].id # rag_call.store.ids[1]

\* the catalog item with an id
OriginalItem(meal_id) == Meals[CHOOSE i \in 1..Len(Meals) : Meals[i].id = meal_id]

\* C19: once a call of initialize_rag_engine has returned, get_meal_by_id never
\* raises; for an id in the index whose get the collection answers it gives an
\* entry with that id and with the id, name and category of the original item in
\* its metadata; for an id that is not in the index it gives the absent value
C19_GetByIdRoundTrip ==
    (rag_call.op = "get" /\ rag_call.completed >= 1) =>
        LET indexed == \E i \in 1..Len(rag_call.store.ids) :
                           rag_call.store.ids[i] = rag_call.meal_id
        IN  /\ rag_call.kind = "ok"
            /\ (indexed /\ rag_call.get_ok) =>
                  /\ rag_call.entry # Absent
                  /\ rag_call.entry.id = rag_call.meal_id
                  /\ rag_call.entry.metadata.id = OriginalItem(rag_call.meal_id).id
                  /\ rag_call.entry.metadata.name = OriginalItem(rag_call.meal_id).name
                  /\ rag_call.entry.metadata.category = OriginalItem(rag_call.meal_id).category
            /\ ~indexed => rag_call.entry = Absent

\* the fourth item of the catalog fetched from the loaded index
C19_Witness ==
    /\ rag_call.op = "get"
    /\ rag_call.completed >= 1
    /\ rag_call.meal_id = "meal_004"
    /\ rag_call.get_ok
    /\ rag_call.entry # Absent
    /\ rag_call.entry.metadata.name = Meals[4].name
    /\ rag_call.entry.metadata.category = "dinner"

\* a table entry is the same before and after a step, absent entries included
SameEntry(before, after, key) ==
    /\ (key \in DOMAIN before) = (key \in DOMAIN after)
    /\ key \in DOMAIN before => after[key] = before[key]

\* the other frames, in flight on another conversation and for another user
OverlapsApart(k) ==
    \E j \in Calls \ {k} :
        /\ calls[j].pc \in InFlightPcs
        /\ calls[j].conversation_id # calls[k].conversation_id
        /\ calls[j].user_id # calls[k].user_id

\* C20: whatever the interleaving, a step of a process_message call touches no
\* conversation but its own and no user's context but its own user's, and what it
\* leaves there is fixed by its own message and its own entries: the start appends
\* the user message, the step in which the Preference Learner finishes merges the
\* extracted preferences, the return appends the reply, no other step writes.  So with distinct conversation ids and user
\* ids every history and every context ends as if its call had run alone: the
\* history is the returned turns of that conversation and nothing else
C20_TurnsIsolated ==
    [][\A k \in Calls :
          (calls'[k] # calls[k] /\ calls'[k].pc # "closed") =>
              LET frame == calls'[k]
                  cid == frame.conversation_id
                  user == frame.user_id
                  extracted == IF /\ frame.handler = PREFERENCE_LEARNER
                                  /\ calls[k].handled = EmptyDict
                                  /\ HasKey(frame.handled, "extracted_preferences")
                               THEN frame.handled.extracted_preferences ELSE EmptyDict
              IN  /\ \A c \in (DOMAIN conversations \cup DOMAIN conversations') \ {cid} :
                        SameEntry(conversations, conversations', c)
                  /\ \A u \in (DOMAIN user_contexts \cup DOMAIN user_contexts') \ {user} :
                        SameEntry(user_contexts, user_contexts', u)
                  /\ IF extracted = EmptyDict
                     THEN SameEntry(user_contexts, user_contexts', user)
                     ELSE /\ user \in DOMAIN user_contexts'
                          /\ user_contexts'[user]
                                = MergePreferences(DictGet(user_contexts, user, EmptyDict), extracted)
                  /\ calls[k].pc = "idle" =>
                        conversations'[cid]
                           = Append(DictGet(conversations, cid, <<>>),
                                    [role |-> "user", content |-> frame.message])
                  /\ frame.pc = "returned" =>
                        /\ conversations'[cid]
                              = Append(conversations[cid],
                                       [role |-> "assistant", content |-> frame.result.message])
                        /\ (cid \notin disturbed' /\ ~InFlightOn(cid, k)) =>
                              /\ conversations'[cid] = Alternating(turn_log'[cid])
                              /\ turn_log'[cid][Len(turn_log'[cid])]
                                    = <<frame.message, frame.result.message>>
                  /\ (calls[k].pc # "idle" /\ frame.pc # "returned") =>
                        SameEntry(conversations, conversations', cid)
      ]_vars

\* u2's turn started while u1's was in flight and returned first: its history is
\* its own two messages, its context its own preference; u1's conversation still
\* holds u1's message alone and u1 has no context
C20_Witness ==
    /\ calls[2].pc = "returned"
    /\ OverlapsApart(2)
    /\ calls[1].pc = "handler_post"
    /\ calls[2].handler = PREFERENCE_LEARNER
    /\ conversations[calls[2].conversation_id]
          = <<[role |-> "user", content |-> calls[2].message],
              [role |-> "assistant", content |-> calls[2].result.message]>>
    /\ conversations[calls[1].conversation_id]
          = <<[role |-> "user", content |-> calls[1].message]>>
    /\ calls[2].user_id \in DOMAIN user_contexts
    /\ calls[1].user_id \notin DOMAIN user_contexts

\* the requests a frame has sent for its router and for its handler
RouterRequests(frame) == frame.route_probes + frame.route_posts
HandlerRequests(frame) == frame.handler_probes + frame.handler_posts

\* C21: in one process_message call every outbound call is made at most once and
\* in order: the router's probe and then its chat request, then one handler, its
\* retrieval query (the Meal Recommender only), its probe and its chat request; no
\* step sends two requests to the backend, and the query comes before the handler's; a call that failed is not sent again: a failed
\* classification is absorbed by the router's default, a failed handler call by the
\* Feedback Analyzer's or Kitchen Router's degraded reply, or it leaves the call
C21_CallsOnceInOrder ==
    [][\A k \in Calls :
          LET before == calls[k]
              frame == calls'[k]
          IN  frame.pc # "closed" =>
              /\ frame.route_probes <= 1 /\ frame.route_posts <= 1
              /\ frame.handler_probes <= 1 /\ frame.handler_posts <= 1
              /\ frame.queries <= 1 /\ Len(frame.invoked) <= 1
              /\ frame.route_posts <= frame.route_probes
              /\ frame.handler_posts <= frame.handler_probes
              /\ (before.pc # "idle") =>
                    (RouterRequests(frame) + HandlerRequests(frame))
                       - (RouterRequests(before) + HandlerRequests(before)) \in {0, 1}
              /\ frame.queries > before.queries => HandlerRequests(before) = 0
              /\ RouterRequests(frame) > RouterRequests(before) =>
                    (before.pc \in {"idle", "route_probe", "route_post"}
                     /\ HandlerRequests(before) = 0)
              /\ HandlerRequests(frame) + frame.queries >= 1 =>
                    (frame.route_probes = 1 /\ frame.route_outcome # "none"
                     /\ Len(frame.invoked) = 1)
              /\ frame.queries = 1 => frame.handler = MEAL_RECOMMENDER
              /\ (frame.handler_probes = 1 /\ frame.handler = MEAL_RECOMMENDER) => frame.queries = 1
              /\ frame.route_outcome \in CompletionFailures =>
                    (frame.agent = PREFERENCE_LEARNER
                     /\ frame.route_posts = (IF frame.route_outcome = "unhealthy" THEN 0 ELSE 1))
              /\ frame.handler_outcome \in CompletionFailures =>
                    /\ frame.handler_posts = (IF frame.handler_outcome = "unhealthy" THEN 0 ELSE 1)
                    /\ IF frame.handler \in {FEEDBACK_ANALYZER, KITCHEN_ROUTER}
                       THEN frame.pc \in {"returned", "raised"}
                            /\ (frame.pc = "returned" => frame.handled.confidence = 70)
                       ELSE frame.pc = "raised"
              /\ frame.pc \in {"returned", "raised"} => frame.route_probes = 1
      ]_vars

\* the classification timed out and was absorbed by the default, the Preference
\* Learner's one chat request failed and left the call: four requests, none twice
C21_Witness ==
    \E k \in Calls :
        /\ calls[k].pc = "raised"
        /\ calls[k].route_outcome = "timeout"
        /\ calls[k].handler = PREFERENCE_LEARNER
        /\ calls[k].handler_outcome = "status"
        /\ calls[k].route_probes = 1 /\ calls[k].route_posts = 1
        /\ calls[k].handler_probes = 1 /\ calls[k].handler_posts = 1

\* C22: the routing prompt renders the last 5 messages of the history given to
\* route_conversation (all of them when there are fewer), in order, each with its
\* role and the first 100 characters of its content, and no older message
C22_PromptShowsLastFive ==
    (routing_prompt.built /\ routing_prompt.history # <<>>) =>
        LET history == routing_prompt.history
            lines == routing_prompt.prompt.history_text
            count == IF Len(history) < 5 THEN Len(history) ELSE 5
        IN  /\ Len(lines) = count
            /\ \A i \in 1..count :
                  LET msg == history[Len(history) - count + i] IN
                  /\ lines[i].role = msg.role
                  /\ lines[i].shown = (IF Len(msg.content) <= 100 THEN msg.content
                                      ELSE SubSeq(msg.content, 1, 100))

\* C23: a call made without a conversation_id gets an id no other call got: the
\* conversation it starts holds its own user message and nothing else, whoever the
\* user and whenever the call arrives
C23_GeneratedIdsUnique ==
    [][\A k \in Calls :
          (calls[k].pc = "idle" /\ calls'[k].pc = "route_probe" /\ calls'[k].generated) =>
              /\ calls'[k].conversation_id \notin DOMAIN conversations
              /\ conversations'[calls'[k].conversation_id]
                    = <<[role |-> "user", content |-> calls'[k].message]>>
              /\ \A j \in Calls \ {k} :
                    calls[j].generated => calls[j].conversation_id # calls'[k].conversation_id
      ]_vars

\* the number a word of the vocabulary writes, none for the other words
WordValue(w) ==
    CASE w = "150" -> 150 [] w = "200" -> 200 [] w = "300" -> 300
      [] w = "4999" -> 4999 [] w = "5000" -> 5000 [] OTHER -> -1

\* a word is a number strictly between 200 and 5000
InCalorieRange(w) == WordValue(w) > 200 /\ WordValue(w) < 5000

MentionsCalorie(words) == \E i \in 1..Len(words) : words[i] \in {"calorie", "Calories"}

\* C24: a calorie target is extracted exactly from a message that contains
\* "calorie" (in any case) and has an all-digit word strictly between 200 and 5000,
\* and it is the first such word; so the calorie_target stored in the user's
\* context is always an integer in that range that one of the user's Preference
\* Learner messages held as a word, and a turn that extracts none leaves it
C24_CalorieTarget ==
    extraction.turns >= 1 =>
        LET words == extraction.words
            hits == {i \in 1..Len(words) : InCalorieRange(words[i])}
            first == CHOOSE i \in hits : \A j \in hits : i <= j
            extracted == extraction.preferences
            stored == extraction.context
        IN  /\ HasKey(extracted, "calorie_target") = (MentionsCalorie(words) /\ hits # {})
            /\ HasKey(extracted, "calorie_target") =>
                  /\ extracted["calorie_target"] = WordValue(words[first])
                  /\ stored["calorie_target"] = extracted["calorie_target"]
            /\ ~HasKey(extracted, "calorie_target") =>
                  /\ HasKey(stored, "calorie_target") = HasKey(extraction.before, "calorie_target")
                  /\ HasKey(stored, "calorie_target") =>
                        stored["calorie_target"] = extraction.before["calorie_target"]
            /\ HasKey(stored, "calorie_target") =>
                  /\ stored["calorie_target"] \in 201..4999
                  /\ MentionsCalorie(extraction.source)
                  /\ \E i \in 1..Len(extraction.source) :
                        /\ InCalorieRange(extraction.source[i])
                        /\ WordValue(extraction.source[i]) = stored["calorie_target"]

\* 150 and 5000 are passed over and 4999 is taken; the turn after it names no
\* number in range and the stored target stays
C24_Witness ==
    /\ extraction.turns = 2
    /\ extraction.words = <<"Calories", "200", "5000">>
    /\ ~HasKey(extraction.preferences, "calorie_target")
    /\ HasKey(extraction.context, "calorie_target")
    /\ extraction.context["calorie_target"] = 4999
    /\ extraction.source = <<"calorie", "150", "4999">>

\* C25: whenever a call of initialize_rag_engine has just returned normally,
\* whatever attempts came before it, the index holds every item of the catalog
\* exactly once and nothing else
C25_IndexInSync ==
    init_log.last = "returned" =>
        /\ Len(chroma_store.ids) = Len(Meals)
        /\ \A i \in 1..Len(Meals) :
              Cardinality({j \in 1..Len(chroma_store.ids) : chroma_store.ids[j] = Meals[i].id}) = 1

\* C26: in the step in which process_message raises because its handler raised,
\* nothing is taken back and nothing is added: the conversation is left as it is,
\* with the user message of the turn and no reply (on a conversation that had only
\* whole turns the length is now odd and the last message is that user message),
\* and the preference table is untouched; no earlier step of such a turn wrote the
\* user's preferences either; the next turn then appends its user message right
\* after the one left behind
C26_FailedTurnKept ==
    [][\A k \in Calls :
          LET frame == calls'[k]
              cid == frame.conversation_id
          IN  /\ (calls[k].pc \in InFlightPcs /\ frame.pc = "raised"
                  /\ frame.error = "HandlerError") =>
                    /\ conversations' = conversations
                    /\ user_contexts' = user_contexts
                    /\ frame.handled = EmptyDict /\ frame.result = EmptyDict
                    /\ (cid \in DOMAIN conversations /\ cid \notin disturbed
                        /\ ~InFlightOn(cid, k)) =>
                          /\ Len(conversations'[cid]) = 2 * Len(DictGet(turn_log', cid, <<>>)) + 1
                          /\ conversations'[cid][Len(conversations'[cid])]
                                = [role |-> "user", content |-> frame.message]
                          /\ SubSeq(conversations'[cid], 1, Len(conversations'[cid]) - 1)
                                = Alternating(DictGet(turn_log', cid, <<>>))
              /\ (calls'[k] # calls[k] /\ calls[k].pc \in InFlightPcs
                  /\ frame.pc \in InFlightPcs) =>
                    user_contexts' = user_contexts
              /\ (calls[k].pc = "idle" /\ frame.pc = "route_probe"
                  /\ cid \in DOMAIN conversations
                  /\ conversations[cid] # <<>>
                  /\ conversations[cid][Len(conversations[cid])].role = "user") =>
                    /\ Len(conversations'[cid]) = Len(conversations[cid]) + 1
                    /\ conversations'[cid][Len(conversations'[cid])].role = "user"
                    /\ conversations'[cid][Len(conversations'[cid]) - 1].role = "user"
      ]_vars

\* a first turn taught vegan; the second turn, on the same conversation, asked for
\* keto and 500 calories and its completion call failed: three messages, the last
\* one the user's, and the context still vegan alone
C26_Witness ==
    \E k \in Calls :
        /\ calls[k].pc = "raised"
        /\ calls[k].error = "HandlerError"
        /\ calls[k].handler = PREFERENCE_LEARNER
        /\ calls[k].message = MsgCalorie
        /\ calls[k].conversation_id \in DOMAIN conversations
        /\ Len(conversations[calls[k].conversation_id]) = 3
        /\ conversations[calls[k].conversation_id][2].role = "assistant"
        /\ conversations[calls[k].conversation_id][3] = [role |-> "user", content |-> MsgCalorie]
        /\ calls[k].user_id \in DOMAIN user_contexts
        /\ user_contexts[calls[k].user_id] = [dietary_restrictions |-> SetToBag({"vegan"})]

-----------------------------------------------------------------------------
\* the probe was answered, and not with a 200
ProbeFailed(answer) == answer # "none" /\ ~check_ollama_health(answer)

\* C27: when the completion backend fails its health probe for the whole turn, the
\* router sends no chat request and falls back to PREFERENCE_LEARNER, and
\* process_message raises whatever the message was: the Preference Learner's own
\* completion call fails and nothing catches it (or the conversation is gone by
\* then).  A turn handled by the Feedback Analyzer or the Kitchen Router is a turn
\* whose router call succeeded, so their degraded replies are reachable only there.
C27_BackendDownRaises ==
    \A k \in Calls :
        LET frame == calls[k] IN
        /\ ProbeFailed(frame.route_probe_answer) =>
              /\ frame.route_posts = 0
              /\ frame.route_outcome = "unhealthy"
              /\ frame.agent = PREFERENCE_LEARNER
              /\ frame.handler \in {"none", PREFERENCE_LEARNER}
              /\ frame.pc \in {"handler_probe", "handler_post", "returned", "raised"}
        /\ ( /\ ProbeFailed(frame.route_probe_answer)
             /\ frame.handler_probe_answer # "200"
             /\ frame.pc \notin {"handler_probe"} ) =>
              /\ frame.pc = "raised"
              /\ frame.result = EmptyDict
              /\ frame.handler_posts = 0
              /\ IF frame.handler = PREFERENCE_LEARNER
                 THEN /\ ProbeFailed(frame.handler_probe_answer)
                      /\ frame.error = "HandlerError"
                      /\ frame.handler_outcome = "unhealthy"
                 ELSE frame.error = "KeyError"
        /\ frame.handler \in {FEEDBACK_ANALYZER, KITCHEN_ROUTER} =>
              /\ frame.route_outcome = "ok"
              /\ frame.route_probe_answer = "200"
              /\ frame.route_posts = 1

\* both probes of a turn failed and the Preference Learner's error left process_message
C27_Witness ==
    \E k \in Calls :
        /\ calls[k].pc = "raised"
        /\ ProbeFailed(calls[k].route_probe_answer)
        /\ ProbeFailed(calls[k].handler_probe_answer)
        /\ calls[k].handler = PREFERENCE_LEARNER
        /\ calls[k].error = "HandlerError"
        /\ calls[k].message = MsgShout

-----------------------------------------------------------------------------
RoleCount(history, role) == Cardinality({i \in 1..Len(history) : history[i].role = role})

OthersInFlightOn(cid, k) ==
    {j \in Calls \ {k} : calls[j].pc \in InFlightPcs /\ calls[j].conversation_id = cid}

IsPrefix(short, long) == Len(short) <= Len(long) /\ SubSeq(long, 1, Len(short)) = short

\* the four messages of two returned turns, each user message before its own reply
HoldsBothTurns(history, log) ==
    /\ Len(history) = 4
    /\ \E p1, p2, q1, q2 \in 1..4 :
          /\ {p1, p2, q1, q2} = 1..4
          /\ p1 < q1 /\ p2 < q2 /\ q1 < q2
          /\ history[p1] = ChatMessage("user", log[1][1])
          /\ history[q1] = ChatMessage("assistant", log[1][2])
          /\ history[p2] = ChatMessage("user", log[2][1])
          /\ history[q2] = ChatMessage("assistant", log[2][2])

\* C28: process_message calls that interleave on one conversation id lose and
\* overwrite nothing: every step keeps the history as a prefix; a call appends its
\* user message when it starts and its reply, after that message, when it returns;
\* once two calls have returned (and no failed call left a message) the history is
\* exactly their four messages.  A call that starts while another is in flight on
\* the id hands its router a window that shows the other's user message, and so
\* does the Preference Learner's window when it is dispatched.
C28_InterleavedTurnsKeepMessages ==
    [][ /\ \A cid \in DOMAIN conversations :
              /\ cid \in DOMAIN conversations'
              /\ IsPrefix(conversations[cid], conversations'[cid])
              /\ Len(conversations'[cid]) <= Len(conversations[cid]) + 1
        /\ \A k \in Calls :
              LET cid == calls'[k].conversation_id
                  others == OthersInFlightOn(cid, k)
              IN
              /\ (calls[k].pc = "idle" /\ calls'[k].pc = "route_probe") =>
                    /\ conversations'[cid] =
                          Append(DictGet(conversations, cid, <<>>),
                                 ChatMessage("user", calls'[k].message))
                    /\ \A j \in others :
                          \E i \in 1..(Len(RoutingHistory(conversations'[cid])) - 1) :
                              RoutingHistory(conversations'[cid])[i]
                                  = ChatMessage("user", calls[j].message)
              /\ (calls[k].handler = "none" /\ calls'[k].handler = PREFERENCE_LEARNER) =>
                    \A j \in others :
                        ChatMessage("user", calls[j].message)
                            \in Range(LastN(conversations[cid], HistoryWindow))
              /\ (calls[k].pc \in InFlightPcs /\ calls'[k].pc = "returned") =>
                    LET before == conversations[cid]
                        after == conversations'[cid]
                        log == turn_log'[cid]
                    IN
                    /\ after = Append(before,
                                      ChatMessage("assistant", calls'[k].result.message))
                    /\ \E p \in 1..Len(before) :
                          before[p] = ChatMessage("user", calls[k].message)
                    /\ log[Len(log)] = <<calls[k].message, calls'[k].result.message>>
                    /\ RoleCount(after, "assistant") = Len(log)
                    /\ RoleCount(after, "user") >= Len(log) + Cardinality(others)
                    /\ (Len(log) = 2 /\ RoleCount(after, "user") = 2) =>
                          HoldsBothTurns(after, log)
      ]_vars

\* two calls overlapped on one conversation and both returned: the history reads
\* user, user, assistant, assistant, with two different user messages
C28_Witness ==
    \E cid \in DOMAIN conversations :
        /\ Len(conversations[cid]) = 4
        /\ [i \in 1..4 |-> conversations[cid][i].role]
              = <<"user", "user", "assistant", "assistant">>
        /\ conversations[cid][1].content # conversations[cid][2].content
        /\ Len(DictGet(turn_log, cid, <<>>)) = 2
        /\ \A k \in Calls : calls[k].pc \in {"returned", "closed"}

-----------------------------------------------------------------------------
-----------------------------------------------------------------------------
\* C30: user_contexts changes only in the step in which a Preference Learner turn
\* succeeds, process_message returning its result, and only in the entry of that
\* call's user_id, which becomes the merge of what the message held; the steps of
\* the Meal Recommender, the Feedback Analyzer and the Kitchen Router, the failed
\* turns and every step of another user's call leave a user's entry as it is; no
\* step removes a user or an element of a user's dietary_restrictions
C30_PreferencesWrittenOnSuccessOnly ==
    [][ /\ \A user \in DOMAIN user_contexts :
              /\ user \in DOMAIN user_contexts'
              /\ BagToSet(StoredRestrictions(user_contexts[user]))
                    \subseteq BagToSet(StoredRestrictions(user_contexts'[user]))
        /\ \A user \in Users :
              ~SameEntry(user_contexts, user_contexts', user) =>
                  \E k \in Calls :
                      LET before == calls[k]
                          frame == calls'[k]
                      IN  /\ before.pc \in {"handler_probe", "handler_post"}
                          /\ before.handler = PREFERENCE_LEARNER
                          /\ before.user_id = user
                          /\ frame.pc = "returned"
                          /\ frame.handler_outcome = "ok"
                          /\ frame.handled.agent_used = PREFERENCE_LEARNER
                          /\ frame.handled.extracted_preferences
                                = ExtractPreferences(before.message, frame.handled.message)
                          /\ user_contexts'[user] =
                                MergePreferences(DictGet(user_contexts, user, EmptyDict),
                                                 frame.handled.extracted_preferences)
        /\ \A k \in Calls :
              ( /\ calls'[k] # calls[k]
                /\ \/ calls'[k].handler \in
                         {MEAL_RECOMMENDER, FEEDBACK_ANALYZER, KITCHEN_ROUTER}
                   \/ calls'[k].pc = "raised"
                   \/ calls'[k].pc \in InFlightPcs ) =>
                  user_contexts' = user_contexts
      ]_vars

====
